---- MODULE Spec2Model ----
(***************************************************************************)
(* Model of the moderation bot: the infraction store (DatabaseManager),    *)
(* the startup discovery of handler modules (index.ts) and the dispatcher  *)
(* of inbound interactions (events/interactionCreate.ts).                  *)
(***************************************************************************)
EXTENDS Integers, Sequences, FiniteSets, TLC

(***************************************************************************)
(* Bounds of the model.                                                    *)
(***************************************************************************)
\* length of a generated id (8 in the source, see generateInfractionId)
IdLen == 1
\* addInfraction is not called once the table holds this many rows, unless
\* every id is in use (such a call adds no row)
MaxRows == 2
\* CURRENT_TIMESTAMP takes the values 0..MaxClock (whole seconds)
MaxClock == 1
\* a commands or buttons directory lists at most this many module files
MaxFiles == 2
\* the platform delivers at most this many interactions
MaxEvents == 3
\* at most this many invocations of the warn command are in progress
MaxHandlers == 2
\* close() is called at most this many times on the store
MaxCloses == 2
\* a nickname has at most this many UTF-16 code units
MaxNick == 2
\* at most this many ping commands are invoked
MaxPings == 2
\* at most this many refresh buttons are pressed
MaxPresses == 2

VARIABLES
    rows,        \* table user_infractions, in rowid (insertion) order
    now,         \* CURRENT_TIMESTAMP, in whole seconds
    call,        \* the addInfraction call in progress, or NoCall
    result,      \* outcome of the last finished addInfraction call
    returned,    \* history: the ids addInfraction returned, with its inputs
    bootPc,      \* position of initializeBot
    dirState,    \* per group: directory "unread", "missing" or "listed"
    files,       \* per group: the module files readdirSync listed, in order
    progress,    \* per group: number of listed files handled without a throw
    commands,    \* client.commands
    buttons,     \* client.buttons
    modals,      \* client.modals
    selectMenus, \* client.selectMenus
    listeners,   \* listeners added with client.on / client.once
    bootLog,     \* console output of the discovery
    ran,         \* history: the load functions initializeBot has called
    exitCode,    \* argument of process.exit, or NotExited
    ev,          \* the interactions delivered so far, in delivery order
    hs,          \* per invocation of the warn command: its position and locals
    running,     \* the invocation that holds the JavaScript thread, or NoOne
    emitted,     \* the names of the events the client has emitted, in order
    calls,       \* the listener calls made for them, in order
    db,          \* the better-sqlite3 handle of the store: "open" or "closed"
    conn,        \* the platform client: "live" or "destroyed"
    trace,       \* what the process-level handlers have done, in order
    w,           \* the warn invocation followed step by step, or NoWarn
    nick,        \* the nickname invocation followed step by step, or NoNick
    pings,       \* the ping invocations with their collectors, in order
    presses,     \* the presses of refresh buttons, in order
    start        \* client.login, the ready event and deployCommands

storeVars == <<rows, now, call, result, returned>>
bootVars == <<bootPc, dirState, files, progress, commands, buttons, modals,
              selectMenus, listeners, bootLog, ran, exitCode>>
dispVars == <<ev>>
warnVars == <<hs, running>>
emitVars == <<emitted, calls>>
lifeVars == <<db, conn, trace>>
flowVars == <<w>>
lateVars == <<nick, pings, presses, start>>
restVars == <<emitVars, lifeVars, flowVars, lateVars>>

\* exitCode while process.exit has not been called
NotExited == -1
Alive == exitCode = NotExited

(***************************************************************************)
(* Infraction store: src/unnamed/part_002 (DatabaseManager).               *)
(***************************************************************************)

\* enum InfractionType
InfractionType == {"WARN", "MUTE", "KICK", "BAN", "TIMEOUT"}

\* the optional parameter `type?` left out
undefined == "undefined"

\* JavaScript truthiness of an optional string argument: `if (type)`
Truthy(v) == v # undefined /\ v # ""

\* the first two characters of `chars` in generateInfractionId
chars == <<"A", "B">>

RECURSIVE StringsOfLen(_)
StringsOfLen(n) ==
    IF n = 0 THEN {<<>>}
    ELSE {Append(s, chars[i]) : s \in StringsOfLen(n - 1), i \in 1..Len(chars)}

\* the ids of the model: every string of IdLen characters
IdSpace == StringsOfLen(IdLen)

\* every value generateInfractionId can return: IdLen random characters
generateInfractionIdConstant == {[i \in 1..IdLen |-> chars[1]]}
generateInfractionId == StringsOfLen(IdLen)

\* the argument tuples the model passes to addInfraction
Inputs ==
    { [userId |-> "u1", guildId |-> "g1", moderatorId |-> "m1", type |-> "WARN", reason |-> "spam"],
      [userId |-> "u1", guildId |-> "g1", moderatorId |-> "m2", type |-> "MUTE", reason |-> "spam"],
      [userId |-> "u2", guildId |-> "g1", moderatorId |-> "m1", type |-> "WARN", reason |-> "flood"],
      [userId |-> "u1", guildId |-> "g2", moderatorId |-> "m1", type |-> "WARN", reason |-> "spam"] }

UserIds == {i.userId : i \in Inputs}
GuildIds == {i.guildId : i \in Inputs}
TypeFilters == {i.type : i \in Inputs} \cup {undefined}

NoCall == [pc |-> "idle"]
NoResult == [kind |-> "none"]

\* SELECT COUNT(*) ... WHERE id = ?  ->  result.count === 0
isInfractionIdUniqueAlways(table, id) == TRUE
isInfractionIdUniqueAtMostOne(table, id) ==
    Cardinality({i \in 1..Len(table) : table[i].id = id}) <= 1
isInfractionIdUnique(table, id) ==
    Cardinality({i \in 1..Len(table) : table[i].id = id}) = 0

\* INSERT INTO user_infractions: id TEXT PRIMARY KEY rejects a duplicate id,
\* created_at defaults to CURRENT_TIMESTAMP
InsertViolatesPrimaryKey(table, id) == \E i \in 1..Len(table) : table[i].id = id

InsertRowReplacingSubject(table, id, in, ts) ==
    LET OtherSubject(r) == r.user_id # in.userId \/ r.guild_id # in.guildId
    IN  Append(SelectSeq(table, OtherSubject),
               [id |-> id, user_id |-> in.userId, guild_id |-> in.guildId,
                moderator_id |-> in.moderatorId, type |-> in.type,
                reason |-> in.reason, created_at |-> ts])
InsertRow(table, id, in, ts) ==
    Append(table, [id |-> id, user_id |-> in.userId, guild_id |-> in.guildId,
                   moderator_id |-> in.moderatorId, type |-> in.type,
                   reason |-> in.reason, created_at |-> ts])

\* new Date(row.created_at): seconds of the stored timestamp to milliseconds
ParseDate(ts) == ts * 1000

\* the row -> Infraction mapping of getUserInfractions and getInfractionById
RowToInfraction(row) ==
    [id |-> row.id, userId |-> row.user_id, guildId |-> row.guild_id,
     moderatorId |-> row.moderator_id, type |-> row.type, reason |-> row.reason,
     createdAt |-> ParseDate(row.created_at)]

null == [id |-> "null"]

\* getInfractionById: SELECT * WHERE id = ?, first row or null
getInfractionByIdSwapped(table, id) ==
    LET hits == {i \in 1..Len(table) : table[i].id = id}
    IN  IF hits = {} THEN null
        ELSE LET row == table[CHOOSE i \in hits : \A j \in hits : i <= j]
             IN  [id |-> row.id, userId |-> row.user_id, guildId |-> row.guild_id,
                  moderatorId |-> row.user_id, type |-> row.type, reason |-> row.reason,
                  createdAt |-> ParseDate(row.created_at)]
getInfractionByIdNoNullTest(table, id) ==
    LET hits == {i \in 1..Len(table) : table[i].id = id}
    IN  IF hits = {} THEN [id |-> "TypeError"]
        ELSE RowToInfraction(table[CHOOSE i \in hits : \A j \in hits : i <= j])
getInfractionById(table, id) ==
    LET hits == {i \in 1..Len(table) : table[i].id = id}
    IN  IF hits = {} THEN null
        ELSE RowToInfraction(table[CHOOSE i \in hits : \A j \in hits : i <= j])

\* WHERE user_id = ? AND guild_id = ? [AND type = ?] of getUserInfractions
UserInfractionRowsAnyGuild(table, userId, guildId, type) ==
    {i \in 1..Len(table) :
        /\ table[i].user_id = userId
        /\ (Truthy(type) => table[i].type = type)}
UserInfractionRows(table, userId, guildId, type) ==
    {i \in 1..Len(table) :
        /\ table[i].user_id = userId
        /\ table[i].guild_id = guildId
        /\ (Truthy(type) => table[i].type = type)}

\* ORDER BY created_at DESC: every order of the selected rows in which
\* created_at never increases; SQL leaves the order of equal keys open
OrderByCreatedAtAsc(table, sel) ==
    {p \in [1..Cardinality(sel) -> sel] :
        /\ \A i, j \in 1..Cardinality(sel) : i # j => p[i] # p[j]
        /\ \A i, j \in 1..Cardinality(sel) :
              i < j => table[p[i]].created_at <= table[p[j]].created_at}
OrderByCreatedAtDesc(table, sel) ==
    {p \in [1..Cardinality(sel) -> sel] :
        /\ \A i, j \in 1..Cardinality(sel) : i # j => p[i] # p[j]
        /\ \A i, j \in 1..Cardinality(sel) :
              i < j => table[p[i]].created_at >= table[p[j]].created_at}

\* the results getUserInfractions can return
getUserInfractions(table, userId, guildId, type) ==
    {[k \in 1..Len(p) |-> RowToInfraction(table[p[k]])] :
        p \in OrderByCreatedAtDesc(table, UserInfractionRows(table, userId, guildId, type))}

\* SELECT COUNT(*) ... WHERE user_id = ? AND guild_id = ? [AND type = ?]
getInfractionCountNoType(table, userId, guildId, type) ==
    Cardinality({i \in 1..Len(table) :
        table[i].user_id = userId /\ table[i].guild_id = guildId})
getInfractionCount(table, userId, guildId, type) ==
    LET base == {i \in 1..Len(table) :
                    table[i].user_id = userId /\ table[i].guild_id = guildId}
    IN  IF Truthy(type)
        THEN Cardinality({i \in base : table[i].type = type})
        ELSE Cardinality(base)

\* every id of the model is the id of a row
IdSpaceUsedUp(table) == \A id \in IdSpace : \E i \in 1..Len(table) : table[i].id = id

StoreInit ==
    /\ rows = <<>>
    /\ now = 0
    /\ call = NoCall
    /\ result = NoResult
    /\ returned = {}

\* a handler calls addInfraction(userId, guildId, moderatorId, type, reason);
\* the call is synchronous, so no other call starts before it has finished
AddInfractionCall ==
    /\ call = NoCall
    /\ Alive
    /\ Len(rows) < MaxRows \/ IdSpaceUsedUp(rows)
    /\ \E in \in Inputs : call' = [pc |-> "generate", in |-> in, collided |-> FALSE]
    /\ UNCHANGED <<rows, now, result, returned>>
    /\ UNCHANGED <<bootVars, dispVars, warnVars, restVars>>

\* getUniqueInfractionId, loop body: id = this.generateInfractionId()
\* returns the candidate id
GenerateId(id) ==
    /\ call.pc = "generate"
    /\ id \in generateInfractionId
    /\ call' = [pc |-> "check", in |-> call.in, collided |-> call.collided, id |-> id]
    /\ UNCHANGED <<rows, now, result, returned>>
    /\ UNCHANGED <<bootVars, dispVars, warnVars, restVars>>

GenerateCandidate == \E id \in IdSpace : GenerateId(id)

\* getUniqueInfractionId, loop condition: while (!this.isInfractionIdUnique(id))
\* on a closed handle this.db.prepare throws and addInfraction with it
CheckCandidate ==
    /\ call.pc = "check"
    /\ IF db = "open"
       THEN /\ call' = IF isInfractionIdUnique(rows, call.id)
                       THEN [call EXCEPT !.pc = "insert"]
                       ELSE [pc |-> "generate", in |-> call.in, collided |-> TRUE]
            /\ UNCHANGED result
       ELSE /\ call' = NoCall
            /\ result' = [kind |-> "throw", error |-> "The database connection is not open"]
    /\ UNCHANGED <<rows, now, returned>>
    /\ UNCHANGED <<bootVars, dispVars, warnVars, restVars>>

\* addInfraction: stmt.run(id, ...); return id
InsertAndReturn ==
    /\ call.pc = "insert"
    /\ IF InsertViolatesPrimaryKey(rows, call.id)
       THEN /\ result' = [kind |-> "throw", error |-> "SQLITE_CONSTRAINT_PRIMARYKEY"]
            /\ UNCHANGED <<rows, returned>>
       ELSE /\ rows' = InsertRow(rows, call.id, call.in, now)
            /\ result' = [kind |-> "id", id |-> call.id, collided |-> call.collided]
            /\ returned' = returned \cup {[id |-> call.id, in |-> call.in]}
    /\ call' = NoCall
    /\ UNCHANGED now
    /\ UNCHANGED <<bootVars, dispVars, warnVars, restVars>>

\* a second of wall-clock time passes
Tick ==
    /\ now < MaxClock
    /\ now' = now + 1
    /\ UNCHANGED <<rows, call, result, returned>>
    /\ UNCHANGED <<bootVars, dispVars, warnVars, restVars>>

StoreNext ==
    \/ AddInfractionCall
    \/ GenerateCandidate
    \/ CheckCandidate
    \/ InsertAndReturn
    \/ Tick


(***************************************************************************)
(* Startup discovery: src/src/index.ts.                                    *)
(***************************************************************************)

\* discord.js Collection (a Map): entries in insertion order
EmptyCollection == <<>>

CollectionHas(coll, key) == \E i \in 1..Len(coll) : coll[i].key = key

\* Map.prototype.get: the value stored under the key
CollectionGet(coll, key) ==
    coll[CHOOSE i \in 1..Len(coll) :
            coll[i].key = key /\ \A j \in 1..Len(coll) : coll[j].key = key => i <= j].value

\* Map.prototype.set: replaces the value of an existing key, else appends
CollectionSetKeepFirst(coll, key, value) ==
    IF CollectionHas(coll, key) THEN coll
    ELSE Append(coll, [key |-> key, value |-> value])
CollectionSet(coll, key, value) ==
    IF CollectionHas(coll, key)
    THEN [i \in 1..Len(coll) |->
            IF coll[i].key = key THEN [key |-> key, value |-> value] ELSE coll[i]]
    ELSE Append(coll, [key |-> key, value |-> value])

CollectionSize(coll) == Len(coll)

Groups == {"commands", "events", "buttons", "modals", "selectMenus"}

NoKey == "-"

\* a module file as import() and the shape test see it:
\*   ok           the identifying key and execute are where the loader looks
\*   missingProps the exported object lacks the key or execute
\*   noDefault    the module has no default export (module.default undefined)
\*   importError  import(filePath) rejects
Module(shape, key, once) == [shape |-> shape, key |-> key, once |-> once]

Malformed == {Module("missingProps", NoKey, FALSE), Module("noDefault", NoKey, FALSE),
              Module("importError", NoKey, FALSE)}

CommandNames == {"warn", "ping"}

ModulesOf(g) ==
    CASE g = "commands" -> {Module("ok", k, FALSE) : k \in CommandNames} \cup Malformed
      [] g = "events" -> {Module("ok", "interactionCreate", FALSE),
                          Module("ok", "ready", TRUE)} \cup Malformed
      [] g = "buttons" -> {Module("ok", "b1", FALSE)} \cup Malformed
      [] g = "modals" -> {Module("ok", "m1", FALSE), Module("noDefault", NoKey, FALSE)}
      [] g = "selectMenus" -> {Module("ok", "s1", FALSE), Module("noDefault", NoKey, FALSE)}

\* the listings readdirSync can return for a group's directory
MaxFilesOf(g) == IF g \in {"commands", "buttons"} THEN MaxFiles ELSE 1

Listings(g) == UNION {[1..n -> ModulesOf(g)] : n \in 0..MaxFilesOf(g)}

\* the handler object a well-formed module file exports
HandlerOf(g, i) == [group |-> g, file |-> i]

\* if (event.once) client.once(event.name, ...) else client.on(event.name, ...)
ListenerForAlwaysOn(m, handler) == [name |-> m.key, once |-> FALSE, handler |-> handler]
ListenerFor(m, handler) == [name |-> m.key, once |-> m.once, handler |-> handler]

\* loadCommands reads its directory without existsSync: readdirSync throws
\* ENOENT; loadEvents and the three component loaders test existsSync first
MissingDirThrows(g) == g = "commands"

\* the function whose try block encloses the loop of a group
LoaderOf(g) ==
    CASE g = "commands" -> "loadCommands"
      [] g = "events" -> "loadEvents"
      [] OTHER -> "loadInteractions"

\* try/catch of the load functions: each catches and logs, none rethrows
LoaderCatchesNotCommands(fn) == fn \in {"loadEvents", "loadInteractions"}
LoaderCatches(fn) == fn \in {"loadCommands", "loadEvents", "loadInteractions"}

\* where initializeBot continues after the load function of a group returns
PcAfterLoader(fn) ==
    CASE fn = "loadCommands" -> "loadEvents"
      [] fn = "loadEvents" -> "loadButtons"
      [] fn = "loadInteractions" -> "login"

\* where control goes when the loop of a group ends normally
PcAfterGroupLoginEarly(g) ==
    CASE g = "commands" -> "loadEvents"
      [] g = "events" -> "login"
      [] g = "buttons" -> "loadModals"
      [] g = "modals" -> "loadSelectMenus"
      [] g = "selectMenus" -> "login"
PcAfterGroup(g) ==
    CASE g = "commands" -> "loadEvents"
      [] g = "events" -> "loadButtons"
      [] g = "buttons" -> "loadModals"
      [] g = "modals" -> "loadSelectMenus"
      [] g = "selectMenus" -> "login"

PcOf(g) ==
    CASE g = "commands" -> "loadCommands"
      [] g = "events" -> "loadEvents"
      [] g = "buttons" -> "loadButtons"
      [] g = "modals" -> "loadModals"
      [] g = "selectMenus" -> "loadSelectMenus"

\* does handling the module throw: import() rejects, or `'data' in
\* command.default` is evaluated on undefined; loadEvents tests the module
\* namespace itself, which never throws
ModuleThrows(g, m) ==
    \/ m.shape = "importError"
    \/ m.shape = "noDefault" /\ g # "events"

\* the shape test: 'data' in command.default && 'execute' in command.default
\* (customId for components, name on the namespace for events)
ModuleAdmitted(g, m) == m.shape = "ok"

\* the else branch of the shape test logs for commands and events only
SkipLogged(g) == g \in {"commands", "events"}

\* the line a load function prints when its loop has ended
CountLine(g, cmds, btns, mdls, sels, listing) ==
    CASE g = "commands" -> {[msg |-> "Loaded commands", n |-> CollectionSize(cmds)]}
      [] g = "events" -> {[msg |-> "Total Events Loaded", n |-> Len(listing)]}
      [] g = "selectMenus" ->
            {[msg |-> "Total interactions loaded",
              n |-> CollectionSize(btns) + CollectionSize(mdls) + CollectionSize(sels)]}
      [] OTHER -> {}

BootInit ==
    /\ bootPc = "loadCommands"
    /\ dirState = [g \in Groups |-> "unread"]
    /\ files = [g \in Groups |-> <<>>]
    /\ progress = [g \in Groups |-> 0]
    /\ commands = EmptyCollection
    /\ buttons = EmptyCollection
    /\ modals = EmptyCollection
    /\ selectMenus = EmptyCollection
    /\ listeners = <<>>
    /\ bootLog = {}
    /\ ran = {}
    /\ exitCode = NotExited

\* an error thrown inside the loop of group g: caught by the enclosing load
\* function, else by initializeBot, which logs and calls process.exit(1)
ThrowInGroup(g) ==
    IF LoaderCatches(LoaderOf(g))
    THEN /\ bootLog' = bootLog \cup {[msg |-> "Error loading", fn |-> LoaderOf(g)]}
         /\ bootPc' = PcAfterLoader(LoaderOf(g))
         /\ UNCHANGED exitCode
    ELSE /\ bootLog' = bootLog \cup {[msg |-> "Error during bot initialization"]}
         /\ bootPc' = "exited"
         /\ exitCode' = 1

\* the loop of group g has no file left: print the count, go on
FinishGroup(g, cmds, btns, mdls, sels, listing, log) ==
    /\ bootLog' = log \cup CountLine(g, cmds, btns, mdls, sels, listing)
    /\ bootPc' = PcAfterGroup(g)
    /\ UNCHANGED exitCode

\* initializeBot calls the loader of group g, which runs up to its first
\* await: existsSync / readdirSync, then either the first import() is pending
\* or the function is over
EnterGroup(g) ==
    /\ bootPc = PcOf(g)
    /\ dirState[g] = "unread"
    /\ ran' = ran \cup {LoaderOf(g)}
    /\ \/ /\ dirState' = [dirState EXCEPT ![g] = "missing"]
          /\ UNCHANGED files
          /\ IF MissingDirThrows(g)
             THEN ThrowInGroup(g)
             ELSE /\ bootPc' = PcAfterGroup(g)
                  /\ bootLog' = bootLog \cup
                        (IF g = "events" THEN {[msg |-> "Events directory not found"]}
                         ELSE IF g = "selectMenus"
                              THEN CountLine(g, commands, buttons, modals, selectMenus, <<>>)
                              ELSE {})
                  /\ UNCHANGED exitCode
       \/ \E listing \in Listings(g) :
             /\ dirState' = [dirState EXCEPT ![g] = "listed"]
             /\ files' = [files EXCEPT ![g] = listing]
             /\ IF listing = <<>>
                THEN FinishGroup(g, commands, buttons, modals, selectMenus, listing, bootLog)
                ELSE UNCHANGED <<bootPc, bootLog, exitCode>>
    /\ UNCHANGED <<progress, commands, buttons, modals, selectMenus, listeners>>
    /\ UNCHANGED <<storeVars, dispVars, warnVars, restVars>>

\* `await import(filePath)` of the next file of group g settles and the loop
\* body runs: shape test, registration or skip, then the next import() or
\* the end of the loop
ImportModule(g) ==
    /\ bootPc = PcOf(g)
    /\ dirState[g] = "listed"
    /\ progress[g] < Len(files[g])
    /\ LET i == progress[g] + 1
           m == files[g][i]
           last == i = Len(files[g])
           admit == ModuleAdmitted(g, m)
           cmds == IF g = "commands" /\ admit
                   THEN CollectionSet(commands, m.key, HandlerOf(g, i)) ELSE commands
           btns == IF g = "buttons" /\ admit
                   THEN CollectionSet(buttons, m.key, HandlerOf(g, i)) ELSE buttons
           mdls == IF g = "modals" /\ admit
                   THEN CollectionSet(modals, m.key, HandlerOf(g, i)) ELSE modals
           sels == IF g = "selectMenus" /\ admit
                   THEN CollectionSet(selectMenus, m.key, HandlerOf(g, i)) ELSE selectMenus
           line == IF admit
                   THEN {[msg |-> "Loaded", group |-> g, file |-> i]}
                   ELSE IF SkipLogged(g)
                        THEN {[msg |-> "missing required properties", group |-> g, file |-> i]}
                        ELSE {}
       IN  IF ModuleThrows(g, m)
           THEN /\ ThrowInGroup(g)
                /\ UNCHANGED <<progress, commands, buttons, modals, selectMenus, listeners>>
           ELSE /\ progress' = [progress EXCEPT ![g] = i]
                /\ commands' = cmds
                /\ buttons' = btns
                /\ modals' = mdls
                /\ selectMenus' = sels
                /\ listeners' = IF g = "events" /\ admit
                                THEN Append(listeners, ListenerFor(m, HandlerOf(g, i)))
                                ELSE listeners
                /\ IF last
                   THEN FinishGroup(g, cmds, btns, mdls, sels, files[g], bootLog \cup line)
                   ELSE /\ bootLog' = bootLog \cup line
                        /\ UNCHANGED <<bootPc, exitCode>>
    /\ UNCHANGED <<dirState, files, ran>>
    /\ UNCHANGED <<storeVars, dispVars, warnVars, restVars>>

loadCommands == EnterGroup("commands")
importCommand == ImportModule("commands")
loadEvents == EnterGroup("events")
importEvent == ImportModule("events")
loadButtons == EnterGroup("buttons")
importButton == ImportModule("buttons")
loadModals == EnterGroup("modals")
importModal == ImportModule("modals")
loadSelectMenus == EnterGroup("selectMenus")
importSelectMenu == ImportModule("selectMenus")

BootNext ==
    \/ loadCommands
    \/ importCommand
    \/ loadEvents
    \/ importEvent
    \/ loadButtons
    \/ importButton
    \/ loadModals
    \/ importModal
    \/ loadSelectMenus
    \/ importSelectMenu


(***************************************************************************)
(* Emission of client events to the listeners loadEvents registered.       *)
(***************************************************************************)

EventNames == {"ready", "interactionCreate"}

\* the listeners EventEmitter.emit calls for an event name, in the order of
\* their registration
ListenersOf(ls, name) == SelectSeq(ls, LAMBDA l : l.name = name)

\* a listener added with once() is removed when its event is emitted
RemoveOnce(ls, name) == SelectSeq(ls, LAMBDA l : ~(l.name = name /\ l.once))

\* the client emits an event after login: every listener registered for the
\* name is called with the occurrence
emit ==
    /\ bootPc = "login"
    /\ Alive
    /\ Len(emitted) < MaxEvents
    /\ \E name \in EventNames :
          LET called == ListenersOf(listeners, name)
          IN  /\ emitted' = Append(emitted, name)
              /\ calls' = calls \o [i \in 1..Len(called) |->
                                      [handler |-> called[i].handler,
                                       occurrence |-> Len(emitted) + 1]]
              /\ listeners' = RemoveOnce(listeners, name)
    /\ UNCHANGED <<bootPc, dirState, files, progress, commands, buttons, modals,
                   selectMenus, bootLog, ran, exitCode>>
    /\ UNCHANGED <<storeVars, dispVars, warnVars, lifeVars, flowVars,
                   lateVars>>

\* loadCommands has returned with the two commands registered
CommandsLoaded ==
    /\ bootPc = "loadEvents"
    /\ dirState = [g \in Groups |-> IF g = "commands" THEN "listed" ELSE "unread"]
    /\ files = [g \in Groups |->
                  IF g = "commands"
                  THEN <<Module("ok", "warn", FALSE), Module("ok", "ping", FALSE)>>
                  ELSE <<>>]
    /\ progress = [g \in Groups |-> IF g = "commands" THEN 2 ELSE 0]
    /\ commands = <<[key |-> "warn", value |-> HandlerOf("commands", 1)],
                    [key |-> "ping", value |-> HandlerOf("commands", 2)]>>
    /\ buttons = EmptyCollection
    /\ modals = EmptyCollection
    /\ selectMenus = EmptyCollection
    /\ listeners = <<>>
    /\ bootLog = {[msg |-> "Loaded", group |-> "commands", file |-> 1],
                  [msg |-> "Loaded", group |-> "commands", file |-> 2],
                  [msg |-> "Loaded commands", n |-> 2]}
    /\ ran = {"loadCommands"}
    /\ exitCode = NotExited


(***************************************************************************)
(* Dispatcher: src/src/events/interactionCreate.ts.                        *)
(***************************************************************************)

NoHandler == [group |-> "none", file |-> 0]
NoNotice == [via |-> "none", content |-> "none"]

\* userMessage of the two sendErrorResponse calls of handleChatInputCommand
NotFoundMessage == "Command not found."
ExecutionErrorMessage == "Something went wrong while executing the command."

\* the interactions the model delivers: kind discriminator and key
\* (commandName or customId); "other" is a kind execute has no branch for
Interactions ==
    { [kind |-> "command", key |-> "warn"],
      [kind |-> "command", key |-> "unknown"],
      [kind |-> "button", key |-> "b1"],
      [kind |-> "button", key |-> "b9"],
      [kind |-> "button", key |-> "ping_refresh"],
      [kind |-> "selectMenu", key |-> "s1"],
      [kind |-> "selectMenu", key |-> "s9"],
      [kind |-> "modal", key |-> "m1"],
      [kind |-> "modal", key |-> "m9"],
      [kind |-> "other", key |-> NoKey] }

\* the try/catch blocks of the file: execute (15-27), handleChatInputCommand
\* (48-62) and sendErrorResponse (115-123) catch and log, none rethrows
CatchesNothing(site) == FALSE
CatchesAroundHandlersOnly(site) == site \in {"execute", "handleChatInputCommand"}
Catches(site) == site \in {"execute", "handleChatInputCommand", "sendErrorResponse"}

\* sendErrorResponse: followUp when replied or deferred, reply otherwise
sendErrorResponseViaFollowUp(replied) == "followUp"
sendErrorResponseViaReply(replied) == "reply"
sendErrorResponseVia(replied) == IF replied THEN "followUp" ELSE "reply"

\* discord.js: reply() rejects on an interaction already replied to or
\* deferred, followUp() rejects on one that is neither
SendCanSucceed(via, replied) ==
    \/ via = "reply" /\ ~replied
    \/ via = "followUp" /\ replied

\* an error that leaves handleChatInputCommand or sendErrorResponse reaches
\* the try block of execute
EscapesToExecute(e) ==
    IF Catches("execute")
    THEN [e EXCEPT !.pc = "done",
                   !.log = @ \cup {"Unexpected interaction handling error"}]
    ELSE [e EXCEPT !.pc = "rejected"]

\* sendErrorResponse up to its await: one call of followUp or reply
StartNotice(e, content) ==
    [e EXCEPT !.pc = "notifying",
              !.attempts = @ + 1,
              !.notice = [via |-> sendErrorResponseVia(e.replied), content |-> content]]

\* the switch statements of the three component handlers
ComponentLog(kind, key) ==
    CASE kind = "button" ->
            IF key = "ping_refresh" THEN {"Button"} ELSE {"Button", "Unhandled button"}
      [] kind = "selectMenu" -> {"Select Menu", "Unhandled select menu"}
      [] kind = "modal" -> {"Modal", "Unhandled modal"}
      [] OTHER -> {}

NotStarted == 0

\* the listener, execute, handleChatInputCommand and command.execute are
\* called one inside the other with no await before the handler body: the
\* handler of a delivered command starts before the next interaction is
\* delivered, as the next one in the order of handler starts
StartPositionDeferred(evs) == NotStarted
StartPosition(evs) == 1 + Cardinality({j \in 1..Len(evs) : evs[j].start # NotStarted})

\* a delivered interaction before execute has looked at it; attempts counts
\* the reply / followUp calls the dispatcher makes on it
Delivered(in, sawFailure) ==
    [kind |-> in.kind, key |-> in.key, pc |-> "done", invoked |-> NoHandler,
     replied |-> FALSE, notice |-> NoNotice, attempts |-> 0, received |-> {},
     log |-> {}, sawFailure |-> sawFailure, start |-> NotStarted]

\* execute(interaction) up to its first real suspension
ClassifyAnsweringComponents(in, sawFailure) ==
    LET e0 == Delivered(in, sawFailure)
    IN  IF in.kind = "command"
        THEN IF ~CollectionHas(commands, in.key)
             THEN StartNotice([e0 EXCEPT !.log = {"Unknown command"}], NotFoundMessage)
             ELSE [e0 EXCEPT !.pc = "executing",
                             !.invoked = CollectionGet(commands, in.key),
                             !.start = StartPosition(ev),
                             !.log = {"Running"}]
        ELSE IF "Unhandled button" \in ComponentLog(in.kind, in.key)
             THEN StartNotice([e0 EXCEPT !.log = ComponentLog(in.kind, in.key)],
                              NotFoundMessage)
             ELSE [e0 EXCEPT !.log = ComponentLog(in.kind, in.key)]
Classify(in, sawFailure) ==
    LET e0 == Delivered(in, sawFailure)
    IN  IF in.kind = "command"
        THEN IF ~CollectionHas(commands, in.key)
             THEN StartNotice([e0 EXCEPT !.log = {"Unknown command"}], NotFoundMessage)
             ELSE [e0 EXCEPT !.pc = "executing",
                             !.invoked = CollectionGet(commands, in.key),
                             !.start = StartPosition(ev),
                             !.log = {"Running"}]
        ELSE [e0 EXCEPT !.log = ComponentLog(in.kind, in.key)]

DispatchIdle == ev = <<>>

\* the platform delivers an interaction; the interactionCreate listener runs
execute ==
    /\ bootPc = "login"
    /\ Alive
    /\ \E l \in 1..Len(listeners) : listeners[l].name = "interactionCreate"
    /\ Len(ev) < MaxEvents
    /\ \E in \in Interactions :
          ev' = Append(ev, Classify(in,
                    \E k \in 1..Len(ev) : "Error in command" \in ev[k].log))
    /\ UNCHANGED <<storeVars, bootVars, warnVars, restVars>>

\* the running command handler answers the interaction (reply or deferReply)
HandlerReplies ==
    \E k \in 1..Len(ev) :
        /\ Alive
        /\ ev[k].pc = "executing"
        /\ ~ev[k].replied
        /\ ev' = [ev EXCEPT ![k].replied = TRUE,
                            ![k].received = @ \cup {"handler reply"}]
        /\ UNCHANGED <<storeVars, bootVars, warnVars, restVars>>

\* await command.execute(interaction) resolves
HandlerReturnsUnregistering ==
    \E k \in 1..Len(ev) :
        /\ Alive
        /\ ev[k].pc = "executing"
        /\ ev' = [ev EXCEPT ![k].pc = "done", ![k].log = @ \cup {"executed"}]
        /\ commands' = SelectSeq(commands, LAMBDA c : c.key # ev[k].key)
        /\ UNCHANGED <<bootPc, dirState, files, progress, buttons, modals,
                       selectMenus, listeners, bootLog, ran, exitCode>>
        /\ UNCHANGED <<storeVars, warnVars, restVars>>
HandlerReturns ==
    \E k \in 1..Len(ev) :
        /\ Alive
        /\ ev[k].pc = "executing"
        /\ ev' = [ev EXCEPT ![k].pc = "done", ![k].log = @ \cup {"executed"}]
        /\ UNCHANGED <<storeVars, bootVars, warnVars, restVars>>

\* await command.execute(interaction) rejects
HandlerThrows ==
    \E k \in 1..Len(ev) :
        /\ Alive
        /\ ev[k].pc = "executing"
        /\ ev' = [ev EXCEPT ![k] =
                    IF Catches("handleChatInputCommand")
                    THEN StartNotice([@ EXCEPT !.log = @ \cup {"Error in command"}],
                                     ExecutionErrorMessage)
                    ELSE EscapesToExecute(@)]
        /\ UNCHANGED <<storeVars, bootVars, warnVars, restVars>>

\* await interaction.reply / followUp of sendErrorResponse resolves
NoticeSent ==
    \E k \in 1..Len(ev) :
        /\ Alive
        /\ ev[k].pc = "notifying"
        /\ SendCanSucceed(ev[k].notice.via, ev[k].replied)
        /\ ev' = [ev EXCEPT ![k].pc = "done",
                            ![k].replied = TRUE,
                            ![k].received = @ \cup {ev[k].notice.content}]
        /\ UNCHANGED <<storeVars, bootVars, warnVars, restVars>>

\* await interaction.reply / followUp of sendErrorResponse rejects
NoticeFails ==
    \E k \in 1..Len(ev) :
        /\ Alive
        /\ ev[k].pc = "notifying"
        /\ ev' = [ev EXCEPT ![k] =
                    IF Catches("sendErrorResponse")
                    THEN [@ EXCEPT !.pc = "done",
                                   !.log = @ \cup {"Failed to reply with error"}]
                    ELSE EscapesToExecute(@)]
        /\ UNCHANGED <<storeVars, bootVars, warnVars, restVars>>

DispatchNext ==
    \/ execute
    \/ HandlerReplies
    \/ HandlerReturns
    \/ HandlerThrows
    \/ NoticeSent
    \/ NoticeFails

(***************************************************************************)
(* Invocations of the warn command: src/src/commands/moderation/warn.ts.   *)
(* Each invocation is an async function; between two awaits it runs alone  *)
(* on the JavaScript thread.                                               *)
(***************************************************************************)

Handlers == 1..MaxHandlers
NoOne == 0
NoId == <<>>

\* addWarning(userId, guildId, moderatorId, reason): addInfraction with
\* InfractionType.WARN
addWarning == {in \in Inputs : in.type = "WARN"}

NotInvoked == [pc |-> "idle"]

\* the steps of an invocation after which it is suspended at an await:
\* execute up to `await interaction.guild.members.fetch`, the INSERT (control
\* returns through warnUser to `await warnUser(...)`) and the final reply;
\* generateInfractionId, the uniqueness SELECT and the INSERT are
\* synchronous better-sqlite3 calls with no await between them
YieldsAfterEveryStatement(step) ==
    step \in {"execute", "fetch", "generate", "check", "insert", "reply"}
YieldsAfter(step) == step \in {"execute", "insert", "reply"}

\* run to completion: a suspended invocation resumes only when no other
\* invocation holds the thread
ThreadFor(h) == running \in {NoOne, h}

AfterStep(h, step) == IF YieldsAfter(step) THEN NoOne ELSE h

WarnIdle ==
    /\ hs = [h \in Handlers |-> NotInvoked]
    /\ running = NoOne

\* execute(interaction), lines 36-76: the checks pass and the member fetch
\* is awaited; invocations are numbered in the order of their delivery
WarnExecute ==
    \E h \in Handlers :
        /\ hs[h] = NotInvoked
        /\ \A j \in 1..(h - 1) : hs[j] # NotInvoked
        /\ ThreadFor(h)
        /\ \E in \in addWarning :
              hs' = [hs EXCEPT ![h] = [pc |-> "fetch", in |-> in, id |-> NoId,
                                       collided |-> FALSE, err |-> "none"]]
        /\ running' = AfterStep(h, "execute")
        /\ UNCHANGED <<storeVars, bootVars, dispVars, restVars>>

\* the member fetch settles, lines 76-98: null sends "Could not find that
\* user"; else warnUser is called and enters database.addWarning
FetchSettles ==
    \E h \in Handlers :
        /\ hs[h].pc = "fetch"
        /\ ThreadFor(h)
        /\ \/ /\ hs' = [hs EXCEPT ![h].pc = "failing", ![h].err = "Could not find that user"]
              /\ running' = NoOne
           \/ /\ hs' = [hs EXCEPT ![h].pc = "generate"]
              /\ running' = AfterStep(h, "fetch")
        /\ UNCHANGED <<storeVars, bootVars, dispVars, restVars>>

\* getUniqueInfractionId inside the invocation: id = generateInfractionId()
WarnGenerate ==
    \E h \in Handlers :
        /\ hs[h].pc = "generate"
        /\ ThreadFor(h)
        /\ \E id \in generateInfractionId :
              hs' = [hs EXCEPT ![h].pc = "check", ![h].id = id]
        /\ running' = AfterStep(h, "generate")
        /\ UNCHANGED <<storeVars, bootVars, dispVars, restVars>>

\* getUniqueInfractionId inside the invocation: the uniqueness SELECT
WarnCheck ==
    \E h \in Handlers :
        /\ hs[h].pc = "check"
        /\ ThreadFor(h)
        /\ hs' = IF isInfractionIdUnique(rows, hs[h].id)
                 THEN [hs EXCEPT ![h].pc = "insert"]
                 ELSE [hs EXCEPT ![h].pc = "generate", ![h].collided = TRUE]
        /\ running' = AfterStep(h, "check")
        /\ UNCHANGED <<storeVars, bootVars, dispVars, restVars>>

\* the INSERT of addInfraction inside the invocation; a throw is caught by
\* warnUser (lines 155-161), else the success reply is sent (line 101)
WarnInsert ==
    \E h \in Handlers :
        /\ hs[h].pc = "insert"
        /\ ThreadFor(h)
        /\ IF InsertViolatesPrimaryKey(rows, hs[h].id)
           THEN /\ hs' = [hs EXCEPT ![h].pc = "failing",
                                    ![h].err = "Failed to save warning to database."]
                /\ UNCHANGED <<rows, returned>>
           ELSE /\ rows' = InsertRow(rows, hs[h].id, hs[h].in, now)
                /\ returned' = returned \cup {[id |-> hs[h].id, in |-> hs[h].in]}
                /\ hs' = [hs EXCEPT ![h].pc = "replying"]
        /\ running' = AfterStep(h, "insert")
        /\ UNCHANGED <<now, call, result>>
        /\ UNCHANGED <<bootVars, dispVars, restVars>>

\* the awaited reply or error response settles and the invocation ends
WarnSettles ==
    \E h \in Handlers :
        /\ hs[h].pc \in {"replying", "failing"}
        /\ ThreadFor(h)
        /\ hs' = [hs EXCEPT ![h].pc = "done"]
        /\ running' = AfterStep(h, "reply")
        /\ UNCHANGED <<storeVars, bootVars, dispVars, restVars>>

WarnNext ==
    \/ WarnExecute
    \/ FetchSettles
    \/ WarnGenerate
    \/ WarnCheck
    \/ WarnInsert
    \/ WarnSettles

(***************************************************************************)
(* Process-level handlers and DatabaseManager.close: src/src/index.ts      *)
(* 193-219, src/unnamed/part_002 165-167.                                  *)
(***************************************************************************)

Signals == {"SIGINT", "SIGTERM"}
TopLevelErrors == {"uncaughtException", "unhandledRejection"}

\* the statements of a process-level handler after its log line
ShutdownBodyExitFirst(cause) == <<"exit", "close", "destroy">>
ShutdownBodyDestroyFirst(cause) == <<"destroy", "close", "exit">>
ShutdownBody(cause) == <<"close", "destroy", "exit">>

\* the argument of process.exit in the handler
ExitStatus(cause) == IF cause \in Signals THEN 0 ELSE 1

\* this.db.close() of better-sqlite3: closes an open handle and leaves a
\* closed one as it is, without an error; it does not touch the rows
CloseHandleThrowsWhenClosed(d) == [db |-> "closed", threw |-> d = "closed"]
CloseHandle(d) == [db |-> "closed", threw |-> FALSE]

\* one statement of a handler body acting on the process
Statement(p, stmt, status) ==
    CASE stmt = "close" ->
            [p EXCEPT !.db = CloseHandle(p.db).db,
                      !.threw = CloseHandle(p.db).threw,
                      !.trace = Append(@, IF CloseHandle(p.db).threw
                                          THEN "close threw" ELSE "close")]
      [] stmt = "destroy" ->
            [p EXCEPT !.conn = "destroyed", !.trace = Append(@, "destroy")]
      [] stmt = "exit" ->
            [p EXCEPT !.exitCode = status, !.trace = Append(@, "exit")]

\* the statements run in order; nothing runs after process.exit or a throw
RECURSIVE RunBody(_, _, _)
RunBody(p, body, status) ==
    IF body = <<>> \/ p.exitCode # NotExited \/ p.threw THEN p
    ELSE RunBody(Statement(p, Head(body), status), Tail(body), status)

\* a signal arrives or an error reaches the top level while no synchronous
\* code is running: the handler logs the cause and runs its body
Shutdown ==
    /\ Alive
    /\ call = NoCall
    /\ running = NoOne
    /\ \E cause \in Signals \cup TopLevelErrors :
          LET p == RunBody([db |-> db, conn |-> conn, trace |-> Append(trace, cause),
                            exitCode |-> exitCode, threw |-> FALSE],
                           ShutdownBody(cause), ExitStatus(cause))
          IN  /\ db' = p.db
              /\ conn' = p.conn
              /\ trace' = p.trace
              /\ exitCode' = p.exitCode
    /\ UNCHANGED <<bootPc, dirState, files, progress, commands, buttons, modals,
                   selectMenus, listeners, bootLog, ran>>
    /\ UNCHANGED <<storeVars, dispVars, warnVars, emitVars, flowVars,
                   lateVars>>

\* the number of close() calls made so far
Closes(tr) == Cardinality({i \in 1..Len(tr) : tr[i] \in {"close", "close threw"}})

\* DatabaseManager.close(), called between two store calls
close ==
    /\ Alive
    /\ call = NoCall
    /\ Closes(trace) < MaxCloses
    /\ LET p == Statement([db |-> db, conn |-> conn, trace |-> trace,
                           exitCode |-> exitCode, threw |-> FALSE], "close", 0)
       IN  /\ db' = p.db
           /\ trace' = p.trace
    /\ UNCHANGED conn
    /\ UNCHANGED <<storeVars, bootVars, dispVars, warnVars, emitVars, flowVars,
                   lateVars>>

(***************************************************************************)
(* One invocation of the warn command, statement by statement:             *)
(* src/src/commands/moderation/warn.ts 36-314.                             *)
(***************************************************************************)

\* role positions of the invoker and of the target
Positions == 1..2

\* a role name is the sequence of its words
allowedRoles ==
    << <<"Community", "Moderator">>, <<"Trial", "Community", "Moderator">>,
       <<"Trial", "VC", "Moderator">>, <<"VC", "Moderator">>,
       <<"Community", "Manager">>, <<"Administrator">> >>

\* the role caches an invoker may have
RoleCaches ==
    { {},
      {<<"Member">>},
      {<<"Member">>, <<"ADMINISTRATOR">>},
      {<<"Senior", "vc", "moderator">>},
      {<<"Moderator">>, <<"Community", "Helper">>} }

\* String.prototype.toLowerCase, word by word
LowerCaseWord(word) ==
    CASE word = "Community" -> "community"
      [] word = "Moderator" -> "moderator"
      [] word = "Trial" -> "trial"
      [] word = "VC" -> "vc"
      [] word = "Manager" -> "manager"
      [] word = "Administrator" -> "administrator"
      [] word = "ADMINISTRATOR" -> "administrator"
      [] word = "Senior" -> "senior"
      [] word = "Member" -> "member"
      [] word = "Helper" -> "helper"
      [] word = "Ethan" -> "ethan"
      [] word = "ETHAN" -> "ethan"
      [] word = "Team" -> "team"
      [] OTHER -> word
toLowerCase(name) == [i \in 1..Len(name) |-> LowerCaseWord(name[i])]

\* String.prototype.includes on whole words
includes(name, part) ==
    \E k \in 0..(Len(name) - Len(part)) : SubSeq(name, k + 1, k + Len(part)) = part

\* member.roles.cache.some(role => allowedRoles.some(...))
hasAllowedRole(roles) ==
    \E role \in roles : \E i \in 1..Len(allowedRoles) :
        includes(toLowerCase(role), toLowerCase(allowedRoles[i]))

NoRefusal == ""

\* the checks of execute before the member fetch, in the order of the code
RefusalBeforeFetch(sc) ==
    IF sc.missing = "guild" THEN "This command can only be used in a server."
    ELSE IF sc.missing = "member" THEN "Issue getting the sending member."
    ELSE IF sc.missing = "target" THEN "Please specify a user to warn."
    ELSE IF sc.missing = "reason" THEN "Please input a reason for the warning."
    ELSE IF ~hasAllowedRole(sc.roles) THEN "You don't have permission to warn users."
    ELSE NoRefusal

\* member.roles.highest.position <= targetMember.roles.highest.position
\*   && member.id !== interaction.guild.ownerId
OutrankedStrictly(sc) == sc.invokerPos < sc.targetPos /\ ~sc.owner
Outranked(sc) == sc.invokerPos <= sc.targetPos /\ ~sc.owner

\* the checks of execute after the member fetch
RefusalAfterFetch(sc) ==
    IF ~sc.found THEN "Could not find that user in this server."
    ELSE IF ~sc.manageable THEN "I cannot warn the user due to role hierarchy."
    ELSE IF Outranked(sc) THEN "You cannot warn someone with an equal or higher role."
    ELSE NoRefusal

\* warnUser: the WarnResult made from the outcome of database.addWarning
warnUserSwallowing(res) ==
    [success |-> TRUE, infractionId |-> IF res.kind = "id" THEN res.id ELSE NoId,
     errorReason |-> NoRefusal]
warnUser(res) ==
    IF res.kind = "id"
    THEN [success |-> TRUE, infractionId |-> res.id, errorReason |-> NoRefusal]
    ELSE [success |-> FALSE, infractionId |-> NoId,
          errorReason |-> "Failed to save warning to database."]

\* the awaited calls of the success branch of execute, in order
SuccessStepsAuditFirst == <<"audit", "reply", "dm">>
SuccessSteps == <<"reply", "audit", "dm">>

NoScenario ==
    [missing |-> "none", roles |-> {}, in |-> CHOOSE in \in addWarning : TRUE,
     found |-> FALSE, manageable |-> FALSE, invokerPos |-> 1, targetPos |-> 1,
     owner |-> FALSE]

\* a call of interaction.reply, followUp, fetchReply or editReply, with the
\* flag `replied` of the interaction at the time of the call
ApiCall(api, flag) == [api |-> api, replied |-> flag]

\* no invocation yet
NoWarn ==
    [pc |-> "idle", sc |-> NoScenario, step |-> 0, id |-> NoId, msg |-> NoRefusal,
     replied |-> FALSE, threw |-> FALSE, out |-> <<>>, calls |-> <<>>]

Said(kind) == [kind |-> kind, id |-> NoId, msg |-> NoRefusal]
Logged(msg) == [kind |-> "log", id |-> NoId, msg |-> msg]

\* the next awaited call of the success branch, or the end of execute
Advance(state) ==
    IF state.step < Len(SuccessSteps)
    THEN [state EXCEPT !.step = @ + 1]
    ELSE [state EXCEPT !.pc = "done"]

\* execute up to the member fetch
WarnCommand ==
    /\ w.pc = "idle"
    /\ nick.pc = "idle"
    /\ pings = <<>>
    /\ DispatchIdle
    /\ Alive
    /\ call = NoCall
    /\ Len(rows) < MaxRows
    /\ \E missing \in {"none", "guild", "member", "target", "reason"},
          roles \in RoleCaches, in \in addWarning :
          LET sc == [NoScenario EXCEPT !.missing = missing, !.roles = roles, !.in = in]
              msg == RefusalBeforeFetch(sc)
          IN  w' = [NoWarn EXCEPT !.sc = sc, !.msg = msg,
                                  !.pc = IF msg = NoRefusal THEN "fetching"
                                         ELSE "errorResponse"]
    /\ UNCHANGED <<storeVars, bootVars, dispVars, warnVars, emitVars, lifeVars,
                   lateVars>>

\* guild.members.fetch settles; the remaining checks; warnUser calls
\* database.addWarning
TargetFetched ==
    /\ w.pc = "fetching"
    /\ Alive
    /\ call = NoCall
    /\ \E found \in BOOLEAN, manageable \in BOOLEAN, invokerPos \in Positions,
          targetPos \in Positions, owner \in BOOLEAN :
          LET sc == [w.sc EXCEPT !.found = found, !.manageable = manageable,
                                 !.invokerPos = invokerPos, !.targetPos = targetPos,
                                 !.owner = owner]
              msg == RefusalAfterFetch(sc)
          IN  IF msg = NoRefusal
              THEN /\ w' = [w EXCEPT !.sc = sc, !.pc = "storing",
                                     !.out = Append(@, Said("addWarning"))]
                   /\ call' = [pc |-> "generate", in |-> sc.in, collided |-> FALSE]
              ELSE /\ w' = [w EXCEPT !.sc = sc, !.pc = "errorResponse", !.msg = msg]
                   /\ UNCHANGED call
    /\ UNCHANGED <<rows, now, result, returned>>
    /\ UNCHANGED <<bootVars, dispVars, warnVars, emitVars, lifeVars,
                   lateVars>>

\* stmt.run fails for a reason outside the program (disk full, I/O error)
InsertFails ==
    /\ call.pc = "insert"
    /\ w.pc = "storing"
    /\ result' = [kind |-> "throw", error |-> "SQLITE_IOERR"]
    /\ call' = NoCall
    /\ UNCHANGED <<rows, now, returned>>
    /\ UNCHANGED <<bootVars, dispVars, warnVars, restVars>>

\* addWarning has returned or thrown: warnUser returns its WarnResult
WarnStored ==
    /\ w.pc = "storing"
    /\ Alive
    /\ call = NoCall
    /\ LET r == warnUser(result)
       IN  w' = IF r.success
                THEN [w EXCEPT !.pc = "success", !.step = 1, !.id = r.infractionId]
                ELSE [w EXCEPT !.pc = "errorResponse", !.msg = r.errorReason,
                               !.threw = TRUE,
                               !.out = Append(@, Logged("Error warning user"))]
    /\ UNCHANGED <<storeVars, bootVars, dispVars, warnVars, emitVars, lifeVars,
                   lateVars>>

\* await interaction.reply(...Infraction ID...): sent, or rejected into the
\* catch of execute
ReplySettles ==
    /\ w.pc = "success"
    /\ Alive
    /\ SuccessSteps[w.step] = "reply"
    /\ \E sent \in BOOLEAN :
          w' = IF sent
               THEN Advance([w EXCEPT !.replied = TRUE,
                                      !.calls = Append(@, ApiCall("reply", w.replied)),
                                      !.out = Append(@, [kind |-> "reply", id |-> w.id,
                                                         msg |-> NoRefusal])])
               ELSE [w EXCEPT !.pc = "errorResponse",
                              !.calls = Append(@, ApiCall("reply", w.replied)),
                              !.msg = "An error occurred while executing the command.",
                              !.out = Append(@, Logged("Error executing warn command"))]
    /\ UNCHANGED <<storeVars, bootVars, dispVars, warnVars, emitVars, lifeVars,
                   lateVars>>

\* the catch of sendToLoggingChannel: the failure is logged and the function
\* returns normally
AuditFailsEscaping(state) ==
    [state EXCEPT !.pc = "errorResponse",
                  !.msg = "An error occurred while executing the command.",
                  !.out = Append(@, Logged("Error executing warn command"))]
AuditFails(state) ==
    Advance([state EXCEPT !.out = Append(@, Logged("Failed to send to logging channel"))])

\* await sendToLoggingChannel: a log channel is found and the message sent,
\* or none is found, or the send fails; both are logged to the console only
AuditSettles ==
    /\ w.pc = "success"
    /\ Alive
    /\ SuccessSteps[w.step] = "audit"
    /\ \E channel \in {"sends", "none", "fails"} :
          w' = CASE channel = "sends" ->
                        Advance([w EXCEPT !.out = Append(@, [kind |-> "audit", id |-> w.id,
                                                             msg |-> NoRefusal])])
                 [] channel = "none" ->
                        Advance([w EXCEPT !.out = Append(@, Logged("User warned"))])
                 [] channel = "fails" -> AuditFails(w)
    /\ UNCHANGED <<storeVars, bootVars, dispVars, warnVars, emitVars, lifeVars,
                   lateVars>>

\* await sendWarnMessageToUser: the warning DM, then the appeal DM; a failed
\* send is logged and skips what follows
DmSettles ==
    /\ w.pc = "success"
    /\ Alive
    /\ SuccessSteps[w.step] = "dm"
    /\ \E sent \in 0..2 :
          w' = Advance([w EXCEPT !.out = @ \o
                    CASE sent = 0 -> <<Logged("Failed to send warning message to user")>>
                      [] sent = 1 -> <<[kind |-> "dm", id |-> w.id, msg |-> NoRefusal],
                                       Logged("Failed to send warning message to user")>>
                      [] sent = 2 -> <<[kind |-> "dm", id |-> w.id, msg |-> NoRefusal],
                                       Said("appeal")>>])
    /\ UNCHANGED <<storeVars, bootVars, dispVars, warnVars, emitVars, lifeVars,
                   lateVars>>

\* sendErrorResponse: followUp after a reply, reply otherwise; a failed send
\* is logged
ErrorResponseSettles ==
    /\ w.pc = "errorResponse"
    /\ Alive
    /\ \E sent \in BOOLEAN :
          w' = [w EXCEPT !.pc = "done",
                         !.calls = Append(@, ApiCall(sendErrorResponseVia(w.replied),
                                                    w.replied)),
                         !.replied = @ \/ sent,
                         !.out = Append(@, IF sent
                                           THEN [kind |-> IF w.replied THEN "followUp"
                                                          ELSE "error",
                                                 id |-> NoId, msg |-> w.msg]
                                           ELSE Logged("Failed to send error response"))]
    /\ UNCHANGED <<storeVars, bootVars, dispVars, warnVars, emitVars, lifeVars,
                   lateVars>>

\* a store that holds nothing, or one warning written earlier
WarnedBefore ==
    \/ rows = <<>> /\ returned = {}
    \/ \E id \in IdSpace, in \in addWarning :
          /\ rows = InsertRow(<<>>, id, in, 0)
          /\ returned = {[id |-> id, in |-> in]}


(***************************************************************************)
(* One invocation of the nickname command:                                 *)
(* src/src/commands/community/nickname.ts 47-430.                          *)
(***************************************************************************)

\* the UTF-16 code units nicknames are made of: a Z 7 space no-break-space
\* - _ ! e-acute, Cyrillic a, Greek alpha, degree-Celsius sign, fullwidth A
\* and the high surrogate of a mathematical bold letter
NickChars == {97, 90, 55, 32, 160, 45, 95, 33, 233, 1072, 945, 8451, 65313, 55349}

\* every string of at most MaxNick code units
Nicknames == UNION {[1..k -> NickChars] : k \in 0..MaxNick}

\* the nickname option left out: getString returns null
NoName == <<-1>>

\* what \s matches in a JavaScript regular expression
RegexWhiteSpace ==
    {9, 10, 11, 12, 13, 32, 160, 5760, 8232, 8233, 8239, 8287, 12288, 65279}
        \cup (8192..8202)

\* the character class [a-zA-Z0-9\s\-_]
InClass(c) ==
    \/ c \in 97..122
    \/ c \in 65..90
    \/ c \in 48..57
    \/ c \in RegexWhiteSpace
    \/ c = 45
    \/ c = 95

\* /^[a-zA-Z0-9\s\-_]+$/.test(nickname)
allowedPatternUnanchored(name) == \E i \in 1..Len(name) : InClass(name[i])
allowedPattern(name) == Len(name) >= 1 /\ \A i \in 1..Len(name) : InClass(name[i])

\* the ranges of the charCodeAt loop
InBlockedRange(c) ==
    \/ c >= 119808 /\ c <= 120831
    \/ c >= 127232 /\ c <= 127487
    \/ c >= 8448 /\ c <= 8527
    \/ c >= 65280 /\ c <= 65519
    \/ c >= 1024 /\ c <= 1279
    \/ c >= 880 /\ c <= 1023

isValidNickname(name) ==
    /\ allowedPattern(name)
    /\ \A i \in 1..Len(name) : ~InBlockedRange(name[i])

\* `newNickname && ...`: null and the empty string are falsy
NameGiven(name) == name # NoName /\ name # <<>>

\* the role caches an invoker of the nickname command may have
NickRoleCaches == { {}, {<<"Member">>}, {<<"Team", "ETHAN">>} }

\* member.roles.cache.some(...) with allowedRoles = ["Ethan"]
hasModeratorRole(roles) ==
    \E role \in roles : includes(toLowerCase(role), toLowerCase(<<"Ethan">>))

\* hasModeratorRole || member.permissions.has(ManageNicknames) || isServerOwner
MayManageOthersAlways(sc) == TRUE
MayManageOthers(sc) == hasModeratorRole(sc.roles) \/ sc.perm \/ sc.owner

NoNickScenario ==
    [guild |-> FALSE, name |-> NoName, target |-> "none", member |-> FALSE,
     roles |-> {}, perm |-> FALSE, owner |-> FALSE, botPerm |-> FALSE,
     found |-> FALSE, manageable |-> FALSE, invokerPos |-> 1, targetPos |-> 1]

InvalidNicknameMessage ==
    "Invalid nickname. Only letters, numbers, spaces, underscores, and hyphens are allowed."

\* the checks of execute before the member fetch, in the order of the code
NickRefusalBeforeFetch(sc) ==
    IF ~sc.guild THEN "This command can only be used in a server."
    ELSE IF NameGiven(sc.name) /\ ~isValidNickname(sc.name) THEN InvalidNicknameMessage
    ELSE IF ~sc.member THEN "Could not find your member information."
    ELSE IF sc.target = "other" /\ ~MayManageOthers(sc)
         THEN "You don't have permission to manage other users' nicknames."
    ELSE IF sc.target = "other" /\ ~sc.botPerm
         THEN "I don't have permission to manage nicknames."
    ELSE NoRefusal

\* what execute has read of the interaction when it stops at its first
\* await; what it has not read is left as in NoNickScenario
ReadBeforeFetch(sc) ==
    LET d == NoNickScenario
        refused == NickRefusalBeforeFetch(sc)
        others == sc.guild /\ sc.member /\ sc.target = "other"
                     /\ ~(NameGiven(sc.name) /\ ~isValidNickname(sc.name))
    IN  /\ sc.found = d.found /\ sc.manageable = d.manageable
        /\ sc.invokerPos = d.invokerPos /\ sc.targetPos = d.targetPos
        /\ ~sc.guild => (sc.name = d.name /\ sc.target = d.target /\ sc.member = d.member)
        /\ ~others => (sc.roles = d.roles /\ sc.perm = d.perm /\ sc.botPerm = d.botPerm)
        /\ (~others /\ refused # NoRefusal) => sc.owner = d.owner
        /\ (others /\ ~MayManageOthers(sc)) => sc.botPerm = d.botPerm

\* the checks of the moderator branch after the member fetch
NickRefusalAfterFetch(sc) ==
    IF ~sc.found THEN "Could not find that user in this server."
    ELSE IF ~sc.manageable THEN "I cannot change the nickname due to role hierarchy."
    ELSE IF Outranked(sc)
         THEN "You cannot change the nickname of someone with an equal or higher role."
    ELSE NoRefusal

NoNick ==
    [pc |-> "idle", sc |-> NoNickScenario, valid |-> FALSE, replied |-> FALSE,
     msg |-> NoRefusal, set |-> <<>>, success |-> FALSE, calls |-> <<>>]

\* execute up to its first await
NicknameCommand ==
    /\ nick.pc = "idle"
    /\ w.pc = "idle"
    /\ pings = <<>>
    /\ DispatchIdle
    /\ Alive
    /\ \E guild \in BOOLEAN, name \in Nicknames \cup {NoName},
          target \in {"none", "self", "other"}, member \in BOOLEAN,
          roles \in NickRoleCaches, perm \in BOOLEAN, owner \in BOOLEAN,
          botPerm \in BOOLEAN :
          LET sc == [NoNickScenario EXCEPT !.guild = guild, !.name = name,
                                           !.target = target, !.member = member,
                                           !.roles = roles, !.perm = perm,
                                           !.owner = owner, !.botPerm = botPerm]
              msg == NickRefusalBeforeFetch(sc)
          IN  /\ ReadBeforeFetch(sc)
              /\ nick' = [NoNick EXCEPT
                            !.sc = sc,
                            !.valid = IF name = NoName THEN FALSE
                                      ELSE isValidNickname(name),
                            !.msg = msg,
                            !.pc = IF msg # NoRefusal THEN "errorResponse"
                                   ELSE IF target = "none" THEN "setting"
                                   ELSE "fetching",
                            !.set = IF msg = NoRefusal /\ target = "none"
                                    THEN <<"self">> ELSE <<>>]
    /\ UNCHANGED <<storeVars, bootVars, dispVars, warnVars, emitVars, lifeVars, flowVars,
                   pings, presses, start>>

\* guild.members.fetch settles; in the moderator branch the remaining
\* checks follow; changeNickname calls member.setNickname
NicknameFetched ==
    /\ nick.pc = "fetching"
    /\ Alive
    /\ \E found \in BOOLEAN, manageable \in BOOLEAN, invokerPos \in Positions,
          targetPos \in Positions :
          LET sc == [nick.sc EXCEPT !.found = found, !.manageable = manageable,
                                    !.invokerPos = invokerPos, !.targetPos = targetPos]
              msg == IF sc.target = "other" THEN NickRefusalAfterFetch(sc)
                     ELSE IF ~sc.found THEN "Could not find user information."
                     ELSE NoRefusal
          IN  /\ (~found \/ sc.target = "self") =>
                    (manageable = FALSE /\ invokerPos = 1 /\ targetPos = 1)
              /\ (sc.target = "other" /\ found /\ ~manageable) =>
                    (invokerPos = 1 /\ targetPos = 1)
              /\ nick' = IF msg # NoRefusal
                         THEN [nick EXCEPT !.sc = sc, !.pc = "errorResponse", !.msg = msg]
                         ELSE [nick EXCEPT !.sc = sc, !.pc = "setting",
                                           !.set = Append(@, sc.target)]
    /\ UNCHANGED <<storeVars, bootVars, dispVars, warnVars, emitVars, lifeVars, flowVars,
                   pings, presses, start>>

\* member.setNickname settles; changeNickname returns its result; execute
\* calls interaction.reply
NicknameSet ==
    /\ nick.pc = "setting"
    /\ Alive
    /\ \E success \in BOOLEAN :
          nick' = [nick EXCEPT !.success = success, !.pc = "replying",
                               !.calls = Append(@, ApiCall("reply", nick.replied))]
    /\ UNCHANGED <<storeVars, bootVars, dispVars, warnVars, emitVars, lifeVars, flowVars,
                   pings, presses, start>>

\* the reply settles: sent, or rejected into the catch of execute, which
\* calls handleNicknameError
NicknameReplySettles ==
    /\ nick.pc = "replying"
    /\ Alive
    /\ \E sent \in BOOLEAN :
          nick' = IF sent
                  THEN [nick EXCEPT !.replied = TRUE,
                                    !.pc = IF nick.sc.target = "other" /\ nick.success
                                           THEN "logging" ELSE "done"]
                  ELSE [nick EXCEPT !.pc = "errorSending",
                                    !.msg = "Failed to execute nickname command",
                                    !.calls = Append(@, ApiCall(sendErrorResponseVia(nick.replied),
                                                               nick.replied))]
    /\ UNCHANGED <<storeVars, bootVars, dispVars, warnVars, emitVars, lifeVars, flowVars,
                   pings, presses, start>>

\* await sendToLoggingChannel: sent, not sent or failed, all inside its try
NicknameLogSettles ==
    /\ nick.pc = "logging"
    /\ Alive
    /\ nick' = [nick EXCEPT !.pc = "done"]
    /\ UNCHANGED <<storeVars, bootVars, dispVars, warnVars, emitVars, lifeVars, flowVars,
                   pings, presses, start>>

\* sendErrorResponse is called for a refusal: followUp after a reply, reply
\* otherwise
NicknameErrorResponse ==
    /\ nick.pc = "errorResponse"
    /\ Alive
    /\ nick' = [nick EXCEPT !.pc = "errorSending",
                            !.calls = Append(@, ApiCall(sendErrorResponseVia(nick.replied),
                                                       nick.replied))]
    /\ UNCHANGED <<storeVars, bootVars, dispVars, warnVars, emitVars, lifeVars, flowVars,
                   pings, presses, start>>

\* the error message settles: sent, or the failure is logged
NicknameErrorSettles ==
    /\ nick.pc = "errorSending"
    /\ Alive
    /\ \E sent \in BOOLEAN :
          nick' = [nick EXCEPT !.pc = "done",
                               !.replied = @ \/ (sent /\ nick.calls[Len(nick.calls)].api = "reply")]
    /\ UNCHANGED <<storeVars, bootVars, dispVars, warnVars, emitVars, lifeVars, flowVars,
                   pings, presses, start>>

(***************************************************************************)
(* The ping command and its button collectors:                             *)
(* src/src/commands/util/ping.ts 20-188.                                   *)
(***************************************************************************)

\* the channels ping is invoked in
Channels == {"c1", "c2"}

\* handlePingError: followUp when replied or deferred, reply otherwise
handlePingErrorViaReply(replied) == "reply"
handlePingErrorVia(replied) == IF replied THEN "followUp" ELSE "reply"

\* execute has called interaction.reply("Pinging...")
Pinging(channel) ==
    [pc |-> "replying", channel |-> channel, replied |-> FALSE,
     calls |-> <<ApiCall("reply", FALSE)>>, collecting |-> FALSE, button |-> FALSE]

\* an awaited call of execute has rejected: the catch calls handlePingError
PingFails(p) ==
    [p EXCEPT !.pc = "errorSending",
              !.calls = Append(@, ApiCall(handlePingErrorVia(p.replied), p.replied))]

\* the dispatcher runs ping's execute up to its first await
PingCommand ==
    /\ Len(pings) < MaxPings
    /\ w.pc = "idle"
    /\ nick.pc = "idle"
    /\ DispatchIdle
    /\ Alive
    /\ \E channel \in Channels : pings' = Append(pings, Pinging(channel))
    /\ UNCHANGED <<storeVars, bootVars, dispVars, warnVars, emitVars, lifeVars, flowVars,
                   nick, presses, start>>

\* the reply settles; execute calls fetchReply
PingReplySettles ==
    /\ Alive
    /\ \E k \in 1..Len(pings), sent \in BOOLEAN :
          /\ pings[k].pc = "replying"
          /\ pings' = [pings EXCEPT ![k] =
                         IF sent
                         THEN [@ EXCEPT !.pc = "fetching", !.replied = TRUE,
                                        !.calls = Append(@, ApiCall("fetchReply", TRUE))]
                         ELSE PingFails(@)]
    /\ UNCHANGED <<storeVars, bootVars, dispVars, warnVars, emitVars, lifeVars, flowVars,
                   nick, presses, start>>

\* fetchReply settles; execute builds the embed and calls editReply
PingFetchSettles ==
    /\ Alive
    /\ \E k \in 1..Len(pings), fetched \in BOOLEAN :
          /\ pings[k].pc = "fetching"
          /\ pings' = [pings EXCEPT ![k] =
                         IF fetched
                         THEN [@ EXCEPT !.pc = "editing",
                                        !.calls = Append(@, ApiCall("editReply", pings[k].replied))]
                         ELSE PingFails(@)]
    /\ UNCHANGED <<storeVars, bootVars, dispVars, warnVars, emitVars, lifeVars, flowVars,
                   nick, presses, start>>

\* editReply settles: the message shows the button and setupButtonCollector
\* creates a collector of the buttons pressed in the channel
PingEditSettles ==
    /\ Alive
    /\ \E k \in 1..Len(pings), edited \in BOOLEAN :
          /\ pings[k].pc = "editing"
          /\ pings' = [pings EXCEPT ![k] =
                         IF edited
                         THEN [@ EXCEPT !.pc = "done", !.collecting = TRUE,
                                        !.button = TRUE]
                         ELSE PingFails(@)]
    /\ UNCHANGED <<storeVars, bootVars, dispVars, warnVars, emitVars, lifeVars, flowVars,
                   nick, presses, start>>

\* the message of handlePingError settles: sent, or the failure is logged
PingErrorSettles ==
    /\ Alive
    /\ \E k \in 1..Len(pings), sent \in BOOLEAN :
          /\ pings[k].pc = "errorSending"
          /\ pings' = [pings EXCEPT ![k].pc = "done", ![k].replied = @ \/ sent]
    /\ UNCHANGED <<storeVars, bootVars, dispVars, warnVars, emitVars, lifeVars, flowVars,
                   nick, presses, start>>

\* the 60 seconds of a collector are over: its end listener edits the
\* reply to disable the button, inside try/catch
CollectorEnds ==
    /\ Alive
    /\ \E k \in 1..Len(pings), edited \in BOOLEAN :
          /\ pings[k].collecting
          /\ pings' = [pings EXCEPT ![k].collecting = FALSE,
                                    ![k].button = ~edited,
                                    ![k].calls = Append(@, ApiCall("editReply",
                                                               pings[k].replied))]
    /\ UNCHANGED <<storeVars, bootVars, dispVars, warnVars, emitVars, lifeVars, flowVars,
                   nick, presses, start>>

\* the collectors that collect a button pressed in `channel`: the options
\* of createMessageComponentCollector name a component type and a time, no
\* message and no filter
CollectorsOf(ps, k) ==
    {j \in 1..Len(ps) : ps[j].collecting /\ ps[j].channel = ps[k].channel}

\* the refresh button of ping message k is pressed: the dispatcher passes
\* ping_refresh over, and the collect listener of every collector that
\* collects the press calls buttonInteraction.deferUpdate()
Press ==
    /\ Alive
    /\ Len(presses) < MaxPresses
    /\ \E k \in 1..Len(pings) :
          /\ pings[k].button
          /\ presses' = Append(presses,
                [on |-> k, acks |-> CollectorsOf(pings, k),
                 pending |-> CollectorsOf(pings, k), deferred |-> FALSE,
                 refreshed |-> {}, escaped |-> {}])
    /\ UNCHANGED <<storeVars, bootVars, dispVars, warnVars, emitVars, lifeVars, flowVars,
                   nick, pings, start>>

\* a deferUpdate() is accepted: the press is acknowledged, and the listener
\* goes on to its try block, which edits the message and catches
AckAccepted ==
    /\ Alive
    /\ \E i \in 1..Len(presses) : \E j \in presses[i].pending :
          /\ ~presses[i].deferred
          /\ presses' = [presses EXCEPT ![i].pending = @ \ {j},
                                        ![i].deferred = TRUE,
                                        ![i].refreshed = @ \cup {j}]
    /\ UNCHANGED <<storeVars, bootVars, dispVars, warnVars, emitVars, lifeVars, flowVars,
                   nick, pings, start>>

\* a deferUpdate() is rejected - the press was acknowledged already, or the
\* request failed; the call is outside the try block, so the promise of
\* the listener rejects unhandled and the unhandledRejection handler runs
AckRejected ==
    /\ Alive
    /\ \E i \in 1..Len(presses) : \E j \in presses[i].pending :
          /\ presses' = [presses EXCEPT ![i].pending = @ \ {j},
                                        ![i].escaped = @ \cup {j}]
          /\ LET p == RunBody([db |-> db, conn |-> conn,
                               trace |-> Append(trace, "unhandledRejection"),
                               exitCode |-> exitCode, threw |-> FALSE],
                              ShutdownBody("unhandledRejection"),
                              ExitStatus("unhandledRejection"))
             IN  /\ db' = p.db
                 /\ conn' = p.conn
                 /\ trace' = p.trace
                 /\ exitCode' = p.exitCode
    /\ UNCHANGED <<bootPc, dirState, files, progress, commands, buttons, modals,
                   selectMenus, listeners, bootLog, ran>>
    /\ UNCHANGED <<storeVars, dispVars, warnVars, emitVars, flowVars, nick, pings, start>>

(***************************************************************************)
(* client.login, the ready event and deployCommands: src/src/index.ts      *)
(* 153-191.                                                                *)
(***************************************************************************)

\* client.login has been called and has not settled; the client has not
\* emitted ready; initializeBot has not yet added its ready listener
LoginCalled ==
    [login |-> "pending", ready |-> FALSE, listening |-> FALSE, deploy |-> "none",
     deploys |-> 0]

\* await client.login resolves: initializeBot goes on and adds its listener
\* with client.once('ready', ...)
LoginResolves ==
    /\ bootPc = "login"
    /\ Alive
    /\ start.login = "pending"
    /\ start' = [start EXCEPT !.login = "resolved", !.listening = TRUE]
    /\ UNCHANGED <<storeVars, bootVars, dispVars, warnVars, emitVars, lifeVars, flowVars,
                   nick, pings, presses>>

\* await client.login rejects: the catch of initializeBot logs and calls
\* process.exit(1)
LoginRejects ==
    /\ bootPc = "login"
    /\ Alive
    /\ start.login = "pending"
    /\ ~start.ready
    /\ start' = [start EXCEPT !.login = "rejected"]
    /\ bootLog' = bootLog \cup {[msg |-> "Error during bot initialization"]}
    /\ bootPc' = "exited"
    /\ exitCode' = 1
    /\ UNCHANGED <<dirState, files, progress, commands, buttons, modals, selectMenus,
                   listeners, ran>>
    /\ UNCHANGED <<storeVars, dispVars, warnVars, emitVars, lifeVars, flowVars,
                   nick, pings, presses>>

\* the client emits ready, once: the ready listeners present at that moment
\* are called; the listener of initializeBot calls deployCommands, which
\* runs up to its await of rest.put
ReadyFires ==
    /\ bootPc = "login"
    /\ Alive
    /\ ~start.ready
    /\ start' = IF start.listening
                THEN [start EXCEPT !.ready = TRUE, !.listening = FALSE,
                                   !.deploy = "running", !.deploys = @ + 1]
                ELSE [start EXCEPT !.ready = TRUE]
    /\ listeners' = RemoveOnce(listeners, "ready")
    /\ UNCHANGED <<bootPc, dirState, files, progress, commands, buttons, modals,
                   selectMenus, bootLog, ran, exitCode>>
    /\ UNCHANGED <<storeVars, dispVars, warnVars, emitVars, lifeVars, flowVars,
                   nick, pings, presses>>

\* rest.put settles: deployCommands logs the count, or logs the error in
\* its catch
DeploySettles ==
    /\ Alive
    /\ start.deploy = "running"
    /\ \E put \in {"reloaded", "failed"} : start' = [start EXCEPT !.deploy = put]
    /\ UNCHANGED <<storeVars, bootVars, dispVars, warnVars, emitVars, lifeVars, flowVars,
                   nick, pings, presses>>

\* the first interaction arrives: the gateway delivers none before ready
firstInteractionAfterReady ==
    /\ start.ready
    /\ DispatchIdle
    /\ execute

\* nothing emitted, the store handle open, the client not destroyed, no
\* process-level handler run, no command invocation followed, login pending
RestIdle ==
    /\ emitted = <<>>
    /\ calls = <<>>
    /\ db = "open"
    /\ conn = "live"
    /\ trace = <<>>
    /\ w = NoWarn
    /\ nick = NoNick
    /\ pings = <<>>
    /\ presses = <<>>
    /\ start = LoginCalled

\* a state in which the discovery has ended: two commands, the
\* interactionCreate listener and one handler of each component kind
Discovered ==
    /\ bootPc = "login"
    /\ dirState = [g \in Groups |-> "listed"]
    /\ files = [g \in Groups |->
                  CASE g = "commands" -> <<Module("ok", "warn", FALSE), Module("ok", "ping", FALSE)>>
                    [] g = "events" -> <<Module("ok", "interactionCreate", FALSE)>>
                    [] g = "buttons" -> <<Module("ok", "b1", FALSE)>>
                    [] g = "modals" -> <<Module("ok", "m1", FALSE)>>
                    [] g = "selectMenus" -> <<Module("ok", "s1", FALSE)>>]
    /\ progress = [g \in Groups |-> Len(files[g])]
    /\ commands = <<[key |-> "warn", value |-> HandlerOf("commands", 1)],
                    [key |-> "ping", value |-> HandlerOf("commands", 2)]>>
    /\ buttons = <<[key |-> "b1", value |-> HandlerOf("buttons", 1)]>>
    /\ modals = <<[key |-> "m1", value |-> HandlerOf("modals", 1)]>>
    /\ selectMenus = <<[key |-> "s1", value |-> HandlerOf("selectMenus", 1)]>>
    /\ listeners = <<[name |-> "interactionCreate", once |-> FALSE,
                      handler |-> HandlerOf("events", 1)]>>
    /\ bootLog = {[msg |-> "Loaded", group |-> g, file |-> 1] : g \in Groups}
                   \cup {[msg |-> "Loaded", group |-> "commands", file |-> 2],
                         [msg |-> "Loaded commands", n |-> 2],
                         [msg |-> "Total Events Loaded", n |-> 1],
                         [msg |-> "Total interactions loaded", n |-> 3]}
    /\ ran = {"loadCommands", "loadEvents", "loadInteractions"}
    /\ exitCode = NotExited

vars == <<rows, now, call, result, returned, bootPc, dirState, files, progress,
          commands, buttons, modals, selectMenus, listeners, bootLog, ran, exitCode, ev,
          hs, running, emitted, calls, db, conn, trace, w, nick, pings, presses, start>>

\* the store, called by handlers once the discovery has ended
Init == StoreInit /\ Discovered /\ DispatchIdle /\ WarnIdle /\ RestIdle
Next == StoreNext
Spec == Init /\ [][Next]_vars

\* the startup discovery on its own
InitBoot == StoreInit /\ BootInit /\ DispatchIdle /\ WarnIdle /\ RestIdle
NextBoot == BootNext
SpecBoot == InitBoot /\ [][NextBoot]_vars

\* the dispatcher after the discovery
InitDispatch == StoreInit /\ Discovered /\ DispatchIdle /\ WarnIdle /\ RestIdle
NextDispatch == DispatchNext
SpecDispatch == InitDispatch /\ [][NextDispatch]_vars

\* the startup discovery followed by the delivery of the first interaction
\* and the run of its handler
firstInteraction == DispatchIdle /\ execute
NextSystem ==
    \/ BootNext
    \/ firstInteraction
    \/ HandlerReplies
    \/ HandlerReturns
    \/ HandlerThrows
    \/ NoticeSent
    \/ NoticeFails
SpecSystem == InitBoot /\ [][NextSystem]_vars

\* the rest of the discovery after loadCommands, then the emission of events
InitEmit == StoreInit /\ CommandsLoaded /\ DispatchIdle /\ WarnIdle /\ RestIdle
NextEmit ==
    \/ loadEvents
    \/ importEvent
    \/ loadButtons
    \/ importButton
    \/ loadModals
    \/ importModal
    \/ loadSelectMenus
    \/ importSelectMenu
    \/ emit
SpecEmit == InitEmit /\ [][NextEmit]_vars

\* the first interaction and its handler, with a signal or a top-level
\* error arriving at any point
InitShutdown == StoreInit /\ Discovered /\ DispatchIdle /\ WarnIdle /\ RestIdle
NextShutdown ==
    \/ firstInteraction
    \/ HandlerReplies
    \/ HandlerReturns
    \/ HandlerThrows
    \/ NoticeSent
    \/ NoticeFails
    \/ Shutdown
SpecShutdown == InitShutdown /\ [][NextShutdown]_vars

\* the store with close() called between its calls
NextClose ==
    \/ AddInfractionCall
    \/ GenerateCandidate
    \/ CheckCandidate
    \/ InsertAndReturn
    \/ close
SpecClose == Init /\ [][NextClose]_vars

\* one invocation of the warn command from its first check to its last send
InitFlow ==
    /\ WarnedBefore
    /\ now = 0
    /\ call = NoCall
    /\ result = NoResult
    /\ Discovered /\ DispatchIdle /\ WarnIdle /\ RestIdle
NextFlow ==
    \/ WarnCommand
    \/ TargetFetched
    \/ GenerateCandidate
    \/ CheckCandidate
    \/ InsertAndReturn
    \/ InsertFails
    \/ WarnStored
    \/ ReplySettles
    \/ AuditSettles
    \/ DmSettles
    \/ ErrorResponseSettles
SpecFlow == InitFlow /\ [][NextFlow]_vars

\* the start of the client after the discovery, and the first interaction
NextReady ==
    \/ LoginResolves
    \/ LoginRejects
    \/ ReadyFires
    \/ DeploySettles
    \/ firstInteractionAfterReady
    \/ HandlerReplies
    \/ HandlerReturns
    \/ HandlerThrows
    \/ NoticeSent
    \/ NoticeFails
ReadyFairness ==
    /\ WF_vars(LoginResolves)
    /\ WF_vars(ReadyFires)
    /\ WF_vars(DeploySettles)
SpecReady == InitShutdown /\ [][NextReady]_vars /\ ReadyFairness

\* the same with the process-level handlers
NextStart == NextReady \/ Shutdown
SpecStart == InitShutdown /\ [][NextStart]_vars

\* one invocation of the nickname command
NextNickname ==
    \/ NicknameCommand
    \/ NicknameFetched
    \/ NicknameSet
    \/ NicknameReplySettles
    \/ NicknameLogSettles
    \/ NicknameErrorResponse
    \/ NicknameErrorSettles
SpecNickname == InitShutdown /\ [][NextNickname]_vars

\* ping commands, their collectors and the presses of their buttons
NextPing ==
    \/ PingCommand
    \/ PingReplySettles
    \/ PingFetchSettles
    \/ PingEditSettles
    \/ PingErrorSettles
    \/ CollectorEnds
    \/ Press
    \/ AckAccepted
    \/ AckRejected
SpecPing == InitShutdown /\ [][NextPing]_vars

\* one interaction answered by the dispatcher, a generic handler or the
\* warn or nickname command, or up to MaxPings ping commands
onlyInteraction ==
    /\ w.pc = "idle"
    /\ nick.pc = "idle"
    /\ pings = <<>>
    /\ firstInteraction
NextReply ==
    \/ onlyInteraction
    \/ HandlerReplies
    \/ HandlerReturns
    \/ HandlerThrows
    \/ NoticeSent
    \/ NoticeFails
    \/ WarnCommand
    \/ TargetFetched
    \/ GenerateCandidate
    \/ CheckCandidate
    \/ InsertAndReturn
    \/ InsertFails
    \/ WarnStored
    \/ ReplySettles
    \/ AuditSettles
    \/ DmSettles
    \/ ErrorResponseSettles
    \/ NextNickname
    \/ PingCommand
    \/ PingReplySettles
    \/ PingFetchSettles
    \/ PingEditSettles
    \/ PingErrorSettles
    \/ CollectorEnds
SpecReply == InitShutdown /\ [][NextReply]_vars

\* invocations of the warn command sharing the store
InitWarn == StoreInit /\ Discovered /\ DispatchIdle /\ WarnIdle /\ RestIdle
NextWarn == WarnNext
SpecWarn == InitWarn /\ [][NextWarn]_vars

\* one addInfraction call after another, all within one second, with a fair
\* generator: every id that generateInfractionId can return comes up again
\* and again
Fairness ==
    /\ WF_vars(CheckCandidate)
    /\ WF_vars(InsertAndReturn)
    /\ \A id \in IdSpace : SF_vars(GenerateId(id))
NextFair == AddInfractionCall \/ GenerateCandidate \/ CheckCandidate \/ InsertAndReturn
SpecFair == Init /\ [][NextFair]_vars /\ Fairness

\* the state SpecDispatch starts in is an end state of the discovery
NeverDiscovered == ~Discovered

\* the state SpecEmit starts in is a state of the discovery
NeverCommandsLoaded == ~CommandsLoaded

(***************************************************************************)
(* Properties of the infraction store.                                     *)
(***************************************************************************)

RowIds(table) == {table[i].id : i \in 1..Len(table)}

\* position (rowid order) of the row with the given id
RowIndex(table, id) == CHOOSE i \in 1..Len(table) : table[i].id = id

\* C1: no two rows of the store share an id, and the id that addInfraction
\* inserts and returns was not in the store when the call was made.
C1_UniqueIds ==
    /\ \A i, j \in 1..Len(rows) : i # j => rows[i].id # rows[j].id
    /\ call.pc = "insert" => call.id \notin RowIds(rows)
    /\ \A r \in returned : Cardinality({i \in 1..Len(rows) : rows[i].id = r.id}) = 1
    /\ Cardinality(returned) = Len(rows)

\* two calls have returned, the second after the first id was in the store
C1_Witness ==
    /\ Len(rows) >= 2
    /\ result.kind = "id"
    /\ rows[Len(rows)].id = result.id
    /\ Cardinality(returned) >= 2

\* C2: getInfractionById(id) of an id that addInfraction returned gives, at
\* any later point, the id and exactly the inputs of that call.
C2_RoundTrip ==
    \A r \in returned :
        LET inf == getInfractionById(rows, r.id)
        IN  /\ inf # null
            /\ inf.id = r.id
            /\ inf.userId = r.in.userId
            /\ inf.guildId = r.in.guildId
            /\ inf.moderatorId = r.in.moderatorId
            /\ inf.type = r.in.type
            /\ inf.reason = r.in.reason

\* an id returned earlier is looked up after later rows were added
C2_Witness ==
    /\ Len(rows) >= 2
    /\ \E r \in returned : rows[1].id = r.id /\ r.in.moderatorId = "m2"

\* C3: getInfractionCount equals the length of getUserInfractions for the
\* same user, guild and optional type filter.
C3_CountEqualsLength ==
    \A u \in UserIds, g \in GuildIds, t \in TypeFilters :
        \A res \in getUserInfractions(rows, u, g, t) :
            Len(res) = getInfractionCount(rows, u, g, t)

\* a subject with rows of two types: the type filter changes the count
C3_Witness ==
    \E u \in UserIds, g \in GuildIds, t \in TypeFilters :
        /\ Truthy(t)
        /\ getInfractionCount(rows, u, g, t) >= 1
        /\ getInfractionCount(rows, u, g, undefined) > getInfractionCount(rows, u, g, t)

RegistryOf(kind) ==
    CASE kind = "command" -> commands
      [] kind = "button" -> buttons
      [] kind = "selectMenu" -> selectMenus
      [] kind = "modal" -> modals
      [] OTHER -> EmptyCollection

Components == {"button", "selectMenu", "modal"}

\* the key of the event is not registered for its kind
Unrouted(e) ==
    e.kind \in Components \cup {"command"} /\ ~CollectionHas(RegistryOf(e.kind), e.key)

MissLogged(e) ==
    CASE e.kind = "command" -> "Unknown command" \in e.log
      [] e.kind = "button" -> "Unhandled button" \in e.log
      [] e.kind = "selectMenu" -> "Unhandled select menu" \in e.log
      [] e.kind = "modal" -> "Unhandled modal" \in e.log

\* C5: a handler that throws does not make execute() reject, and an event
\* delivered after the failure is classified, routed and its handler invoked
\* exactly as the registry says.
C5_FailureIsolation ==
    \A k \in 1..Len(ev) :
        /\ ev[k].pc # "rejected"
        /\ "Error in command" \in ev[k].log => ev[k].pc \in {"notifying", "done"}
        /\ ev[k].sawFailure /\ ev[k].kind = "command" =>
              IF CollectionHas(commands, ev[k].key)
              THEN /\ ev[k].invoked = CollectionGet(commands, ev[k].key)
                   /\ "Running" \in ev[k].log
              ELSE /\ ev[k].invoked = NoHandler
                   /\ "Unknown command" \in ev[k].log

\* a handler threw, its execute() resolved, and a command delivered after
\* the failure ran to completion
C5_Witness ==
    \E k1, k2 \in 1..Len(ev) :
        /\ k1 < k2
        /\ "Error in command" \in ev[k1].log
        /\ ev[k1].pc = "done"
        /\ ev[k2].sawFailure
        /\ ev[k2].kind = "command"
        /\ ev[k2].invoked = CollectionGet(commands, "warn")
        /\ "executed" \in ev[k2].log
        /\ ev[k2].pc = "done"

\* C6 (as stated): the dispatch of an event whose key is not registered
\* completes without throwing and with a logged miss, and for a command
\* invocation the caller receives the not-found response.
C6_MissLoggedAndNotFoundReceived ==
    \A k \in 1..Len(ev) :
        Unrouted(ev[k]) =>
            /\ ev[k].pc # "rejected"
            /\ ev[k].pc = "done" =>
                  /\ MissLogged(ev[k])
                  /\ ev[k].kind = "command" => NotFoundMessage \in ev[k].received

\* C6 (amended): the dispatch of an event whose key is not registered never
\* throws; for a command the miss is logged and the not-found message is
\* sent with reply(), and the caller receives it unless that send fails,
\* which is logged; for a component the miss is logged as unhandled, except
\* for the button id ping_refresh, and nothing is sent.
C6_MissHandledBestEffort ==
    \A k \in 1..Len(ev) :
        Unrouted(ev[k]) =>
            /\ ev[k].pc # "rejected"
            /\ ev[k].invoked = NoHandler
            /\ ev[k].kind = "command" =>
                  /\ "Unknown command" \in ev[k].log
                  /\ ev[k].notice = [via |-> "reply", content |-> NotFoundMessage]
                  /\ ev[k].received \subseteq {NotFoundMessage}
                  /\ ev[k].pc = "done" =>
                        (NotFoundMessage \in ev[k].received)
                            # ("Failed to reply with error" \in ev[k].log)
            /\ ev[k].kind \in Components =>
                  /\ ev[k].pc = "done"
                  /\ ev[k].notice = NoNotice
                  /\ ev[k].received = {}
                  /\ MissLogged(ev[k]) <=> ev[k].key # "ping_refresh"

\* an unknown command answered, an unknown command whose answer failed to
\* send, and an unregistered component id
C6_Witness ==
    \E k1, k2, k3 \in 1..Len(ev) :
        /\ ev[k1].kind = "command" /\ Unrouted(ev[k1]) /\ ev[k1].pc = "done"
        /\ NotFoundMessage \in ev[k1].received
        /\ ev[k2].kind = "command" /\ Unrouted(ev[k2]) /\ ev[k2].pc = "done"
        /\ "Failed to reply with error" \in ev[k2].log
        /\ ev[k3].kind \in Components /\ Unrouted(ev[k3]) /\ MissLogged(ev[k3])

\* C7: a button, select-menu or modal event whose custom id is registered
\* for its kind has that registered handler invoked.
C7_RegisteredComponentInvoked ==
    \A k \in 1..Len(ev) :
        ev[k].kind \in Components /\ CollectionHas(RegistryOf(ev[k].kind), ev[k].key) =>
            ev[k].invoked = CollectionGet(RegistryOf(ev[k].kind), ev[k].key)

(***************************************************************************)
(* Properties of the startup discovery (SpecBoot).                         *)
(***************************************************************************)

\* the files of a group that the loop has handled and admitted under key k
Admitted(g, k) ==
    {i \in 1..progress[g] : files[g][i].shape = "ok" /\ files[g][i].key = k}

MaxOf(S) == CHOOSE x \in S : \A y \in S : y <= x

\* C8: registering a command under a name that is already registered
\* replaces the entry: lookup returns the handler registered last, and the
\* registry holds exactly one entry for the name.
C8_LastRegistrationWins ==
    /\ \A i, j \in 1..Len(commands) : i # j => commands[i].key # commands[j].key
    /\ \A k \in CommandNames :
          Admitted("commands", k) # {} =>
              /\ CollectionHas(commands, k)
              /\ CollectionGet(commands, k) = HandlerOf("commands", MaxOf(Admitted("commands", k)))
              /\ \A i \in 1..Len(commands) : commands[i].key = k =>
                    commands[i].value = HandlerOf("commands", MaxOf(Admitted("commands", k)))

\* two command modules with the same name have been registered
C8_Witness ==
    \E k \in CommandNames :
        /\ Cardinality(Admitted("commands", k)) >= 2
        /\ CollectionGet(commands, k) = HandlerOf("commands", 2)
        /\ Len(commands) = 1

PcRank(pc) ==
    CASE pc = "loadCommands" -> 1
      [] pc = "loadEvents" -> 2
      [] pc = "loadButtons" -> 3
      [] pc = "loadModals" -> 4
      [] pc = "loadSelectMenus" -> 5
      [] OTHER -> 6

\* initializeBot has left the loader of the group
GroupOver(g) == PcRank(bootPc) > PcRank(PcOf(g))

\* the module of file i of group g is registered under its key
Registered(g, i) ==
    IF g = "events"
    THEN \E l \in 1..Len(listeners) : listeners[l].name = files[g][i].key
    ELSE CollectionHas(RegistryOf(
            CASE g = "commands" -> "command" [] g = "buttons" -> "button"
              [] g = "modals" -> "modal" [] g = "selectMenus" -> "selectMenu"),
            files[g][i].key)

\* the skip is logged by the shape test, or the module's error by the loader
SkipIsLogged(g, i) ==
    \/ [msg |-> "missing required properties", group |-> g, file |-> i] \in bootLog
    \/ /\ ModuleThrows(g, files[g][i])
       /\ [msg |-> "Error loading", fn |-> LoaderOf(g)] \in bootLog

\* C9: in a group whose modules all load, a module lacking the key or the
\* entry point (or the default export) is logged and skipped, and every
\* well-formed module of the group is registered.
C9_MalformedSkippedRestRegistered ==
    \A g \in Groups :
        (/\ GroupOver(g)
         /\ dirState[g] = "listed"
         /\ \A i \in 1..Len(files[g]) : files[g][i].shape # "importError")
        => \A i \in 1..Len(files[g]) :
              IF files[g][i].shape = "ok" THEN Registered(g, i) ELSE SkipIsLogged(g, i)

\* C10: a failure in one of the groups commands, events, interactive
\* components does not keep the other load functions from running, and no
\* load function passes an error on to initializeBot.
C10_GroupFailuresContained ==
    /\ exitCode = NotExited
    /\ bootPc # "exited"
    /\ PcRank(bootPc) >= 2 => "loadCommands" \in ran
    /\ PcRank(bootPc) >= 3 => "loadEvents" \in ran
    /\ bootPc = "login" => ran = {"loadCommands", "loadEvents", "loadInteractions"}

\* loadCommands failed, and still an event listener and a button were loaded
C10_Witness ==
    /\ bootPc = "login"
    /\ [msg |-> "Error loading", fn |-> "loadCommands"] \in bootLog
    /\ Len(listeners) >= 1
    /\ Len(buttons) >= 1

(***************************************************************************)
(* Startup and dispatch together (SpecSystem).                             *)
(***************************************************************************)

\* C11: when an interaction is dispatched, the population of the registries
\* has run to completion: initializeBot has called and left all three load
\* functions, and no loader is in progress.
C11_DiscoveryBeforeDispatch ==
    Len(ev) > 0 =>
        /\ bootPc = "login"
        /\ {"loadCommands", "loadEvents", "loadInteractions"} \subseteq ran
        /\ \A g \in Groups : GroupOver(g)

\* the first interaction is routed to a handler the discovery registered as
\* the second command file
C11_Witness ==
    /\ Len(ev) = 1
    /\ ev[1].kind = "command"
    /\ ev[1].invoked = HandlerOf("commands", 2)
    /\ Len(buttons) >= 1

(***************************************************************************)
(* Failure notices of the dispatcher (SpecDispatch).                       *)
(***************************************************************************)

\* C12: when a command handler throws, the dispatcher logs the failure and
\* makes one attempt to send the generic failure notice: with followUp when
\* the handler had replied or deferred, with reply otherwise.
C12_HandlerFailureNotice ==
    \A k \in 1..Len(ev) :
        "Error in command" \in ev[k].log =>
            /\ ev[k].invoked # NoHandler
            /\ ev[k].pc \in {"notifying", "done"}
            /\ ev[k].attempts = 1
            /\ ev[k].notice.content = ExecutionErrorMessage
            /\ ev[k].notice.via =
                  IF "handler reply" \in ev[k].received THEN "followUp" ELSE "reply"

\* one handler threw after replying and got the notice as a follow-up,
\* another threw before replying and got it as the reply
C12_Witness ==
    \E k1, k2 \in 1..Len(ev) :
        /\ "Error in command" \in ev[k1].log
        /\ ev[k1].notice.via = "followUp"
        /\ {"handler reply", ExecutionErrorMessage} \subseteq ev[k1].received
        /\ "Error in command" \in ev[k2].log
        /\ ev[k2].notice.via = "reply"
        /\ ev[k2].received = {ExecutionErrorMessage}

\* C13: a failure notice or not-found notice that cannot be sent is logged
\* by sendErrorResponse and goes no further: execute() resolves, the error
\* does not reach the catch of execute, and no second notice is attempted.
C13_NoticeFailureSwallowed ==
    \A k \in 1..Len(ev) :
        /\ ev[k].pc # "rejected"
        /\ ev[k].attempts <= 1
        /\ (ev[k].pc = "done" /\ ev[k].attempts = 1
                /\ ev[k].notice.content \notin ev[k].received) =>
              /\ "Failed to reply with error" \in ev[k].log
              /\ "Unexpected interaction handling error" \notin ev[k].log
        /\ "Failed to reply with error" \in ev[k].log =>
              /\ ev[k].pc = "done"
              /\ ev[k].notice.content \notin ev[k].received

\* a not-found notice and a failure notice both failed to send
C13_Witness ==
    \E k1, k2 \in 1..Len(ev) :
        /\ ev[k1].notice.content = NotFoundMessage
        /\ "Failed to reply with error" \in ev[k1].log
        /\ ev[k2].notice.content = ExecutionErrorMessage
        /\ "Failed to reply with error" \in ev[k2].log
        /\ ev[k1].pc = "done" /\ ev[k2].pc = "done"

\* C14: for a button, select-menu or modal interaction the dispatcher sends
\* nothing: no reply, no follow-up, no notice; it only logs.
C14_ComponentsOnlyLogged ==
    \A k \in 1..Len(ev) :
        ev[k].kind \in Components =>
            /\ ev[k].pc = "done"
            /\ ev[k].attempts = 0
            /\ ev[k].notice = NoNotice
            /\ ev[k].received = {}
            /\ ~ev[k].replied
            /\ ev[k].log # {}

\* an unregistered button id and a registered modal id have been dispatched
C14_Witness ==
    \E k1, k2 \in 1..Len(ev) :
        /\ ev[k1].kind = "button" /\ ev[k1].key = "b9"
        /\ "Unhandled button" \in ev[k1].log
        /\ ev[k2].kind = "modal" /\ ev[k2].key = "m1"
        /\ ev[k2].pc = "done"

(***************************************************************************)
(* Concurrent invocations sharing the store (SpecWarn).                    *)
(***************************************************************************)

\* the invocation is inside getUniqueInfractionId or about to INSERT
InStoreCall(h) == hs[h].pc \in {"generate", "check", "insert"}

\* C15: with several invocations interleaved at their awaits, no two rows
\* share an id: an invocation that is between its uniqueness check and its
\* INSERT holds the thread, no other invocation is inside a store call, and
\* the id it is about to insert is not in the store.
C15_StoreCallsNotInterleaved ==
    /\ \A i, j \in 1..Len(rows) : i # j => rows[i].id # rows[j].id
    /\ \A h \in Handlers :
          /\ InStoreCall(h) => running = h
          /\ InStoreCall(h) => \A h2 \in Handlers \ {h} : ~InStoreCall(h2)
          /\ hs[h].pc = "insert" => hs[h].id \notin RowIds(rows)
          /\ hs[h].pc \in {"failing", "done"} =>
                hs[h].err # "Failed to save warning to database."

\* two invocations await their replies at the same time, each with its row
\* in the store, the second after a collision with the id of the first
C15_Witness ==
    \E h1, h2 \in Handlers :
        /\ h1 # h2
        /\ hs[h1].pc = "replying"
        /\ hs[h2].pc = "replying"
        /\ hs[h2].collided
        /\ {hs[h1].id, hs[h2].id} \subseteq RowIds(rows)

(***************************************************************************)
(* More properties of the infraction store (Spec, SpecFair).               *)
(***************************************************************************)

\* C16: a candidate id that is already in the store is never surfaced: the
\* call goes back to generating, changes no row and returns nothing for it;
\* addInfraction never throws on a duplicate id.
C16_CollisionNeverSurfaced ==
    /\ [](result.kind # "throw")
    /\ [][(call.pc = "check" /\ call.id \in RowIds(rows)) =>
            /\ call'.pc \in {"check", "generate"}
            /\ rows' = rows
            /\ returned' = returned
            /\ result' = result]_vars

\* a call met a collision and then returned an id that was free
C16_Witness ==
    /\ result.kind = "id"
    /\ result.collided
    /\ call = NoCall

\* C17: with a fair generator a call made while some id is unused returns;
\* a call in progress while every id is in use never returns.
C17_LoopTerminatesIffIdLeft ==
    /\ (call.pc # "idle" /\ ~IdSpaceUsedUp(rows)) ~> (call.pc = "idle")
    /\ [][(call.pc # "idle" /\ IdSpaceUsedUp(rows)) => call'.pc # "idle"]_vars

\* a call made on a store in which every id is in use is back at generating
\* after its candidate collided
C17_Witness ==
    /\ IdSpaceUsedUp(rows)
    /\ call.pc = "generate"
    /\ call.collided

\* C18: the store is append-only: no step removes or changes a row, and the
\* number of rows never decreases.
C18_AppendOnly ==
    [][/\ Len(rows') >= Len(rows)
       /\ \A i \in 1..Len(rows) : \E j \in 1..Len(rows') : rows'[j] = rows[i]]_vars

\* a second infraction of the same user in the same guild has been stored
C18_Witness ==
    /\ Len(rows) >= 2
    /\ rows[1].user_id = rows[2].user_id
    /\ rows[1].guild_id = rows[2].guild_id

\* the rows of the subject, of the given type when one is given
Matching(u, g, t) ==
    {RowToInfraction(rows[i]) :
        i \in {j \in 1..Len(rows) :
                /\ rows[j].user_id = u
                /\ rows[j].guild_id = g
                /\ (t = undefined \/ rows[j].type = t)}}

\* C19: getUserInfractions returns exactly the rows of the user in the
\* guild, of the given type when one is given, each once.
C19_ExactFilter ==
    \A u \in UserIds, g \in GuildIds, t \in TypeFilters :
        \A res \in getUserInfractions(rows, u, g, t) :
            /\ {res[k] : k \in 1..Len(res)} = Matching(u, g, t)
            /\ Len(res) = Cardinality(Matching(u, g, t))

\* a query leaves out a row of the same user in another guild
C19_Witness ==
    \E u \in UserIds, g \in GuildIds :
        /\ Matching(u, g, "WARN") # {}
        /\ \E i \in 1..Len(rows) : rows[i].user_id = u /\ rows[i].guild_id # g

\* C20: getInfractionById returns null, without throwing, for an id no call
\* has returned, and the row of the id for an id some call has returned.
C20_NullIffNeverReturned ==
    \A id \in IdSpace \cup {NoId} :
        IF \E r \in returned : r.id = id
        THEN getInfractionById(rows, id).id = id
        ELSE getInfractionById(rows, id) = null

\* the store holds a row while another id has never been returned
C20_Witness ==
    /\ \E r \in returned : getInfractionById(rows, r.id).id = r.id
    /\ \E id \in IdSpace : id \notin RowIds(rows) /\ getInfractionById(rows, id) = null

(***************************************************************************)
(* Counts printed by the discovery (SpecBoot).                             *)
(***************************************************************************)

\* C28: a count printed at the end of a group's discovery equals the number
\* of handlers admitted into the group: the entries of client.commands, the
\* listeners added for events, the entries of the three component registries.
C28_CountEqualsAdmitted ==
    \A line \in bootLog :
        /\ line.msg = "Loaded commands" => line.n = CollectionSize(commands)
        /\ line.msg = "Total Events Loaded" => line.n = Len(listeners)
        /\ (line.msg = "Total interactions loaded" /\ bootPc = "login") =>
              line.n = CollectionSize(buttons) + CollectionSize(modals)
                          + CollectionSize(selectMenus)

(***************************************************************************)
(* Order of handler starts (SpecDispatch).                                 *)
(***************************************************************************)

\* C25: the handler of a delivered command has started when execute
\* returns to the event loop, and handlers start in the order of delivery:
\* of two started handlers the one delivered first started first.
C25_StartedInDeliveryOrder ==
    \A k \in 1..Len(ev) :
        /\ (ev[k].kind = "command" /\ CollectionHas(commands, ev[k].key)) =>
              ev[k].start # NotStarted
        /\ \A j \in 1..Len(ev) :
              (j < k /\ ev[j].start # NotStarted /\ ev[k].start # NotStarted) =>
                  ev[j].start < ev[k].start

\* the handler of a second command has started while the handler of the
\* first, delivered earlier, is suspended and has not completed
C25_Witness ==
    \E j, k \in 1..Len(ev) :
        /\ j < k
        /\ ev[j].pc = "executing"
        /\ ev[j].replied
        /\ ev[k].pc = "executing"
        /\ ev[k].start = ev[j].start + 1

(***************************************************************************)
(* The registries after the discovery (SpecSystem).                        *)
(***************************************************************************)

\* C26: once initializeBot has left the three load steps, no step (delivery
\* of an interaction, run or failure of a handler, sending of a notice)
\* changes client.commands, client.buttons, client.modals or
\* client.selectMenus.
C26_RegistryReadOnly ==
    [][bootPc = "login" =>
          /\ commands' = commands
          /\ buttons' = buttons
          /\ modals' = modals
          /\ selectMenus' = selectMenus]_vars

\* after the discovery a command was dispatched and its handler has run to
\* its end
C26_Witness ==
    /\ bootPc = "login"
    /\ Len(ev) = 1
    /\ "executed" \in ev[1].log
    /\ CollectionHas(commands, ev[1].key)
    /\ ev[1].invoked = CollectionGet(commands, ev[1].key)
    /\ Len(buttons) >= 1

(***************************************************************************)
(* Listeners registered with once and on (SpecEmit).                       *)
(***************************************************************************)

\* the occurrences of the event name among the emitted events
Occurrences(name) == {o \in 1..Len(emitted) : emitted[o] = name}

\* the occurrences for which the handler of events file i was called
CalledFor(i) ==
    {calls[c].occurrence : c \in {d \in 1..Len(calls) :
                                    calls[d].handler = HandlerOf("events", i)}}

\* C27: the handler of an event module with once = true is called for the
\* first occurrence of its event and for no later one; the handler of a
\* module with once = false is called for every occurrence, once each.
C27_OnceFiresOnce ==
    \A i \in 1..progress["events"] :
        LET m == files["events"][i]
        IN  m.shape = "ok" =>
              /\ Cardinality({c \in 1..Len(calls) :
                                 calls[c].handler = HandlerOf("events", i)})
                    = Cardinality(CalledFor(i))
              /\ IF m.once
                 THEN CalledFor(i) =
                        {o \in Occurrences(m.key) : \A o2 \in Occurrences(m.key) : o <= o2}
                 ELSE CalledFor(i) = Occurrences(m.key)

\* ready was emitted twice with a once-listener registered for it
C27_Witness ==
    /\ progress["events"] = 1
    /\ files["events"][1] = Module("ok", "ready", TRUE)
    /\ Cardinality(Occurrences("ready")) >= 2
    /\ Len(calls) = 1

(***************************************************************************)
(* Shutdown (SpecShutdown) and close() (SpecClose).                        *)
(***************************************************************************)

\* C22: when the process has exited on SIGINT or SIGTERM, close() was
\* called on the store before process.exit, and the exit status is 0.
C22_SignalClosesStoreThenExits ==
    (~Alive /\ Len(trace) > 0 /\ trace[1] \in Signals) =>
        /\ db = "closed"
        /\ exitCode = 0
        /\ \E i, j \in 1..Len(trace) : i < j /\ trace[i] = "close" /\ trace[j] = "exit"

\* SIGTERM arrived while a command handler was suspended
C22_Witness ==
    /\ ~Alive
    /\ trace[1] = "SIGTERM"
    /\ Len(ev) = 1
    /\ ev[1].pc = "executing"

\* C23: the process exits only through a process-level handler; after an
\* uncaught exception or unhandled rejection the store is closed, then the
\* client destroyed, then the process exits with a non-zero status. A
\* failing command handler or notice does not end the process.
C23_OrderlyShutdownOnTopLevelError ==
    /\ ~Alive => (Len(trace) > 0 /\ trace[1] \in Signals \cup TopLevelErrors)
    /\ (~Alive /\ trace[1] \in TopLevelErrors) =>
          /\ trace = <<trace[1], "close", "destroy", "exit">>
          /\ db = "closed"
          /\ conn = "destroyed"
          /\ exitCode # 0
    /\ Len(trace) = 0 => (Alive /\ db = "open" /\ conn = "live")

\* an unhandled rejection ended the process after a command handler had
\* thrown and its failure notice had failed to send
C23_Witness ==
    /\ ~Alive
    /\ trace[1] = "unhandledRejection"
    /\ Len(ev) = 1
    /\ "Error in command" \in ev[1].log
    /\ "Failed to reply with error" \in ev[1].log

\* C24: close() leaves the rows as they are and closes the handle; on a
\* handle that is already closed it changes nothing and raises no error.
C24_CloseKeepsRows ==
    /\ [][trace' # trace =>
            /\ rows' = rows
            /\ returned' = returned
            /\ db' = "closed"
            /\ exitCode' = exitCode
            /\ trace' = Append(trace, "close")]_vars
    /\ [][db = "closed" => (rows' = rows /\ db' = "closed")]_vars

\* close() was called a second time on a store that holds rows
C24_Witness ==
    /\ Closes(trace) >= 2
    /\ db = "closed"
    /\ Len(rows) >= 1
    /\ result.kind = "throw"

(***************************************************************************)
(* The warn command (SpecFlow).                                            *)
(***************************************************************************)

\* the positions in the output of the invocation that hold an entry of `kind`
OutOf(kind) == {i \in 1..Len(w.out) : w.out[i].kind = kind}

\* C29: database.addWarning is called, and so a row written, only if the
\* command was used in a guild, one of the invoker's roles has a name that
\* contains an allowed role name (letter case ignored), the target was
\* found in the guild and is manageable, and the invoker's highest role is
\* strictly above the target's or the invoker owns the guild.
C29_PersistsOnlyWhenAuthorized ==
    (call # NoCall \/ result # NoResult \/ OutOf("addWarning") # {}) =>
        /\ w.sc.missing = "none"
        /\ \E role \in w.sc.roles : \E i \in 1..Len(allowedRoles) :
              includes(toLowerCase(role), toLowerCase(allowedRoles[i]))
        /\ w.sc.found
        /\ w.sc.manageable
        /\ w.sc.invokerPos > w.sc.targetPos \/ w.sc.owner

\* the guild owner, holding a role spelled ADMINISTRATOR, warned a member
\* whose highest role is not below their own
C29_Witness ==
    /\ w.pc = "done"
    /\ w.sc.owner
    /\ w.sc.invokerPos <= w.sc.targetPos
    /\ <<"ADMINISTRATOR">> \in w.sc.roles
    /\ result.kind = "id"
    /\ OutOf("reply") # {}

\* C30: the success reply, the audit-log message and the DMs carry the id
\* that addWarning returned for this invocation, whose row is in the store
\* by then; the reply precedes the audit-log message and the DMs, the
\* audit-log message precedes the DMs, and none of them is sent by an
\* invocation whose store call failed or was never made.
C30_EffectsInOrder ==
    /\ \A i \in OutOf("reply") \cup OutOf("audit") \cup OutOf("dm") :
          /\ result.kind = "id"
          /\ w.out[i].id = result.id
          /\ \E k \in 1..Len(rows) :
                /\ rows[k].id = w.out[i].id
                /\ rows[k].user_id = w.sc.in.userId
                /\ rows[k].type = "WARN"
          /\ \E k \in OutOf("addWarning") : k < i
    /\ \A i \in OutOf("audit") \cup OutOf("dm") \cup OutOf("appeal") :
          \E k \in OutOf("reply") : k < i
    /\ \A i \in OutOf("audit") : \A j \in OutOf("dm") \cup OutOf("appeal") : i < j
    /\ \A j \in OutOf("appeal") : \E i \in OutOf("dm") : i < j
    /\ Cardinality(OutOf("reply")) <= 1

\* a warn whose first candidate id was taken: row, reply, audit-log
\* message and both DMs
C30_Witness ==
    /\ w.pc = "done"
    /\ result.kind = "id"
    /\ result.collided
    /\ Len(rows) = 2
    /\ OutOf("reply") # {}
    /\ OutOf("audit") # {}
    /\ OutOf("appeal") # {}

\* C21 as stated: when addWarning has thrown, it was called once, the
\* moderator has received an error response by the end of the invocation,
\* and no success reply, audit-log message or DM was sent.
C21_ErrorResponseReceived ==
    (result.kind = "throw" /\ w.pc = "done") =>
        /\ Cardinality(OutOf("addWarning")) = 1
        /\ OutOf("error") # {}
        /\ OutOf("reply") \cup OutOf("audit") \cup OutOf("dm") \cup OutOf("appeal") = {}

\* C21, amended: when addWarning has thrown, it was called once and is not
\* called again, no row was written, no success reply, audit-log message or
\* DM is sent, and the handler makes exactly one attempt to send the error
\* response "Failed to save warning to database."; the moderator receives
\* it unless that send fails, and then the failure is logged.
C21_WriteFailureSurfaced ==
    result.kind = "throw" =>
        /\ call = NoCall
        /\ Cardinality(OutOf("addWarning")) = 1
        /\ OutOf("reply") \cup OutOf("audit") \cup OutOf("dm") \cup OutOf("appeal")
              \cup OutOf("followUp") = {}
        /\ \A k \in 1..Len(rows) : [id |-> rows[k].id, in |-> w.sc.in] \in returned
                                      => k = 1 /\ Len(rows) = 1
        /\ w.pc \in {"storing", "errorResponse", "done"}
        /\ w.pc # "storing" => w.msg = "Failed to save warning to database."
        /\ w.pc # "done" => OutOf("error") = {}
        /\ w.pc = "done" =>
              \/ /\ w.out[Len(w.out)] = [kind |-> "error", id |-> NoId,
                                         msg |-> "Failed to save warning to database."]
                 /\ Cardinality(OutOf("error")) = 1
              \/ /\ w.out[Len(w.out)] = Logged("Failed to send error response")
                 /\ OutOf("error") = {}

\* the write failed, the store keeps its one earlier row and the moderator
\* received the error response
C21_Witness ==
    /\ result.kind = "throw"
    /\ w.pc = "done"
    /\ OutOf("error") # {}
    /\ Len(rows) = 1

\* the console messages of the invocation
LoggedIn(msg) == \E i \in OutOf("log") : w.out[i].msg = msg

\* C31: an invocation that has ended with an error response sent to the
\* moderator has added no row to the store.
C31_ErrorMeansNotRecorded ==
    (w.pc = "done" /\ OutOf("error") \cup OutOf("followUp") # {}) => result.kind # "id"

\* C32: once the success reply has been sent, the row of the warning is in
\* the store and stays there, no error response is sent, and execute goes
\* on to its end without entering its catch, whether or not the audit-log
\* message and the DMs could be sent.
C32_LateFailuresKeepOutcome ==
    OutOf("reply") # {} =>
        /\ result.kind = "id"
        /\ \E k \in 1..Len(rows) : rows[k].id = result.id
        /\ OutOf("error") \cup OutOf("followUp") = {}
        /\ ~LoggedIn("Error executing warn command")
        /\ ~LoggedIn("Failed to send error response")
        /\ w.pc \in {"success", "done"}

\* the invocation ended after the audit-log send and the first DM failed
C32_Witness ==
    /\ w.pc = "done"
    /\ OutOf("reply") # {}
    /\ LoggedIn("Failed to send to logging channel")
    /\ LoggedIn("Failed to send warning message to user")
    /\ OutOf("dm") = {}

(***************************************************************************)
(* Start of the client (SpecReady, SpecStart).                             *)
(***************************************************************************)

\* C37: once client.login has resolved, deployCommands eventually runs,
\* after the ready event, and it never runs a second time.
C37_DeployedOnceAfterReady ==
    /\ [](start.login = "resolved" => <>(start.ready /\ start.deploys = 1))
    /\ [](start.deploys <= 1)

\* C38: whenever the process has exited, close() was called on the store
\* before process.exit.
C38_ClosedBeforeEveryExit ==
    ~Alive => (db = "closed" /\ \E i, j \in 1..Len(trace) :
                                    i < j /\ trace[i] = "close" /\ trace[j] = "exit")

(***************************************************************************)
(* The nickname command (SpecNickname).                                    *)
(***************************************************************************)

\* C33: setNickname is called on a member other than the invoker only if
\* the invoker has a role whose name contains "Ethan" (letter case
\* ignored), the ManageNicknames permission or owns the guild, the bot has
\* ManageNicknames, the target was found and is manageable, and the
\* invoker's highest role is strictly above the target's or the invoker
\* owns the guild.
C33_OthersNicknameOnlyWhenAuthorized ==
    /\ Len(nick.set) <= 1
    /\ \A i \in 1..Len(nick.set) :
          nick.set[i] = "other" =>
             /\ \/ \E role \in nick.sc.roles : includes(toLowerCase(role), <<"ethan">>)
                \/ nick.sc.perm
                \/ nick.sc.owner
             /\ nick.sc.botPerm
             /\ nick.sc.found
             /\ nick.sc.manageable
             /\ nick.sc.invokerPos > nick.sc.targetPos \/ nick.sc.owner

\* a holder of the role "Team ETHAN", without the permission and not the
\* owner, changed the nickname of a lower-ranked member
C33_Witness ==
    /\ nick.pc = "done"
    /\ nick.set = <<"other">>
    /\ nick.sc.roles = {<<"Team", "ETHAN">>}
    /\ ~nick.sc.perm
    /\ ~nick.sc.owner
    /\ nick.success
    /\ nick.replied

\* non-empty, and every code unit an ASCII letter, a digit, whitespace, a
\* hyphen or an underscore
LettersDigitsSpacesHyphenUnderscore(name) ==
    /\ name # <<>>
    /\ \A i \in 1..Len(name) :
          name[i] \in (65..90) \cup (97..122) \cup (48..57) \cup RegexWhiteSpace \cup {45, 95}

\* C34: isValidNickname(n) is true exactly when n is non-empty and made of
\* ASCII letters, digits, whitespace, hyphens and underscores; a non-empty
\* nickname that is not is refused with the invalid-nickname response
\* before the permission checks, and setNickname is not called.
C34_ValidNicknames ==
    (nick.pc # "idle" /\ nick.sc.name # NoName) =>
        /\ nick.valid <=> LettersDigitsSpacesHyphenUnderscore(nick.sc.name)
        /\ (nick.sc.name # <<>> /\ ~LettersDigitsSpacesHyphenUnderscore(nick.sc.name)) =>
              /\ nick.msg = InvalidNicknameMessage
              /\ nick.set = <<>>
              /\ nick.pc \in {"errorResponse", "errorSending", "done"}
              /\ \A i \in 1..Len(nick.calls) :
                    i = 1 /\ nick.calls[i] = ApiCall("reply", FALSE)

\* "a" followed by a fullwidth A, given for another member by an invoker
\* without any permission: refused as invalid, the response received
C34_Witness ==
    /\ nick.pc = "done"
    /\ nick.sc.name = <<97, 65313>>
    /\ nick.sc.target = "other"
    /\ ~MayManageOthers(nick.sc)
    /\ nick.replied
    /\ nick.msg = InvalidNicknameMessage

(***************************************************************************)
(* Replies (SpecReply) and button presses (SpecPing).                      *)
(***************************************************************************)

\* the calls made on the interactions of the commands, one sequence for
\* each interaction
CallSequences ==
    {w.calls, nick.calls} \cup {pings[k].calls : k \in 1..Len(pings)}

\* C35: reply() is only called on an interaction that has not been replied
\* to, by the dispatcher and by the warn, nickname and ping handlers; once
\* an interaction has been replied to, whatever is sent later is sent with
\* followUp or editReply.
C35_ReplyOnlyOnce ==
    /\ \A calls_ \in CallSequences : \A j \in 1..Len(calls_) :
          /\ calls_[j].api = "reply" => ~calls_[j].replied
          /\ calls_[j].api \in {"followUp", "editReply", "fetchReply"} => calls_[j].replied
          /\ \A i \in 1..j : calls_[i].replied => calls_[j].api # "reply"
    /\ \A k \in 1..Len(ev) :
          ev[k].pc = "notifying" => (ev[k].notice.via = "reply" <=> ~ev[k].replied)

\* a ping whose editReply was rejected after its reply had been sent: the
\* error message went out with followUp
C35_Witness ==
    /\ Len(pings) >= 1
    /\ pings[1].pc = "done"
    /\ pings[1].calls = <<ApiCall("reply", FALSE), ApiCall("fetchReply", TRUE),
                          ApiCall("editReply", TRUE), ApiCall("followUp", TRUE)>>

\* C36: a button press is acknowledged with deferUpdate at most once, only
\* by the collector of the ping message it belongs to, and no failure of
\* its handling leaves the collect listener as an unhandled rejection.
C36_PressHandledOnceByOwnCollector ==
    \A i \in 1..Len(presses) :
        /\ Cardinality(presses[i].acks) <= 1
        /\ presses[i].acks \subseteq {presses[i].on}
        /\ presses[i].refreshed \subseteq {presses[i].on}
        /\ presses[i].escaped = {}

====
